---- MODULE Spec2Model ----
(***************************************************************************)
(* Verification model of the podcast-recommendations backend:              *)
(*   - YouTubeService.chunk_transcript          (youtube_service.py)       *)
(*   - ClaudeService.extract_recommendations*   (claude_service.py)        *)
(*   - BookEnrichmentService / GoogleBooksService                          *)
(*   - scripts/process_all_pending.py process_episode                      *)
(*   - MetricsService.save_processing_metrics                              *)
(*   - scripts/create_book_aggregates.py create_book_aggregates            *)
(*   - YouTubeService.get_transcript_with_verification                     *)
(*                                                                         *)
(* Python strings that are only sliced, searched and stripped (the         *)
(* transcript and its chunks) are sparse texts: a length plus the          *)
(* positions of the characters that are not an ordinary letter.  Python    *)
(* strings that are compared, lower-cased and scored (titles, authors,     *)
(* ISBNs) are sequences of one-character strings.                          *)
(***************************************************************************)
EXTENDS Integers, Sequences, FiniteSets, TLC

VARIABLES
    transcript,   \* chunk_transcript: the text being chunked
    chunk_size,   \* chunk_transcript: parameter chunk_size
    overlap,      \* chunk_transcript: parameter overlap
    start,        \* chunk_transcript: local variable start
    chunks,       \* chunk_transcript: local list chunks (the returned list)
    spans,        \* history: the untrimmed [start, end) of every chunk cut
    cpc           \* chunk_transcript: control point

chunkVars == <<transcript, chunk_size, overlap, start, chunks, spans, cpc>>

VARIABLES
    pc,                   \* process_episode / ClaudeService: control point
    idx,                  \* extract_recommendations_from_chunks: loop index i
    all_recommendations,  \* extract_recommendations_from_chunks: local list
    chunk_metadata,       \* extract_recommendations_from_chunks: local list
    recommendations,      \* the mention list returned by extract_recommendations_smart
    claude_metadata,      \* the processing metadata returned with it
    oracleLog             \* history: every call made to the oracle, in order

extractVars == <<pc, idx, all_recommendations, chunk_metadata, recommendations,
                 claude_metadata, oracleLog>>

VARIABLES
    epc,          \* enrich_book_recommendation: control point
    book_data,    \* enrich_book_recommendation: the argument
    title,        \* enrich_book_recommendation: local title
    author,       \* enrich_book_recommendation: local author
    google_data,  \* enrich_book_recommendation: the catalog's answer
    enriched,     \* enrich_book_recommendation: the value returned
    netCalls      \* history: the network calls made during enrichment

enrichVars == <<epc, book_data, title, author, google_data, enriched, netCalls>>

VARIABLES
    transcript_metadata,  \* process_episode: metadata of the fetched transcript
    ri,                   \* process_episode: index of the loop over recommendations
    session_status,       \* episode.processing_status as set in the session
    db_status,            \* episode.processing_status as committed
    pending,              \* Recommendation rows added to the session, not committed
    db_recs,              \* Recommendation rows committed
    metrics               \* ProcessingMetrics rows committed

procVars == <<transcript_metadata, ri, session_status, db_status, pending, db_recs, metrics>>

VARIABLES
    apc,              \* create_book_aggregates: control point
    rec_table,        \* the book rows of table recommendations, in insertion order
    books,            \* create_book_aggregates: the rows fetched (l.43)
    bi,               \* create_book_aggregates: index of the loops over books / book_map
    book_map,         \* create_book_aggregates: the dict book_map, in insertion order
    agg_session,      \* BookAggregate objects added to the session, not committed
    book_aggregates,  \* the committed rows of table book_aggregates
    uuid_next,        \* the next value uuid4 hands out
    agg_runs,         \* history: the number of runs of the script started
    prev_aggregates   \* history: book_aggregates as the previous completed run left it

aggVars == <<apc, rec_table, books, bi, book_map, agg_session, book_aggregates,
             uuid_next, agg_runs, prev_aggregates>>

VARIABLES
    ipc,          \* _isbn13_to_isbn10: control point
    isbn13_arg,   \* _isbn13_to_isbn10: the argument
    isbn10_result \* _isbn13_to_isbn10: the value returned

isbnVars == <<ipc, isbn13_arg, isbn10_result>>

VARIABLES
    vpc,              \* get_transcript_with_verification: control point
    segments,         \* the snippets the transcript API returned
    gap_i,            \* loop index i of the gap loop (l.156)
    gaps,             \* local list gaps
    quality_metadata  \* the metadata dict returned (NoneObj while there is none)

verifyVars == <<vpc, segments, gap_i, gaps, quality_metadata>>

VARIABLES
    oracle_unreachable,  \* history: every oracle call of the episode's extraction failed
    aggregates_before    \* history: book_aggregates as the current rebuild found it

histVars == <<oracle_unreachable, aggregates_before>>

VARIABLES
    sc_pc,            \* safe_commit: control point
    max_retries,      \* safe_commit: parameter max_retries
    attempt,          \* safe_commit: loop variable attempt
    retry_delay,      \* safe_commit: parameter / local retry_delay
    session_changes,  \* the modifications pending in the session db
    store_changes,    \* the modifications committed to the store
    sc_log,           \* history: the outcome of every db.commit() attempted
    sc_sleeps,        \* history: the delays slept, in order
    changes_at_call   \* history: session_changes when safe_commit was called

commitVars == <<sc_pc, max_retries, attempt, retry_delay, session_changes,
                store_changes, sc_log, sc_sleeps, changes_at_call>>

VARIABLES
    wpc,          \* per worker: control point in main / process_episode
    w_selected,   \* per worker: the pending episodes its query returned
    w_recs,       \* per worker: the mentions extracted for the episode
    ep_status,    \* the committed processing_status of the episode
    ep_rows       \* the committed Recommendation rows of the episode

workerVars == <<wpc, w_selected, w_recs, ep_status, ep_rows>>

VARIABLES
    rpc,                     \* enrich_recommendation: control point
    recommendation,          \* the dict object passed to enrich_recommendation
    recommendation_at_call,  \* history: its keys and values when it was passed
    rec_result               \* the value enrich_recommendation returned

recVars == <<rpc, recommendation, recommendation_at_call, rec_result>>

moreVars == <<commitVars, workerVars, recVars>>

auxVars == <<aggVars, isbnVars, verifyVars, histVars, moreVars>>

vars == <<chunkVars, extractVars, enrichVars, procVars, auxVars>>

\* ------------------------------------------------------------------ bounds
MaxLen == 5          \* longest small text given to chunk_transcript
MaxChunkSize == 3    \* largest chunk_size tried on small texts
MaxChunks == MaxLen + 1   \* cap on the iterations of a loop that makes no progress
MaxBooks == 3        \* most book rows in table recommendations
MaxRuns == 2         \* most runs of create_book_aggregates in a row
MaxRetriesArg == 3   \* largest max_retries given to safe_commit

\* ----------------------------------------------------------------- helpers
Max(S) == CHOOSE x \in S : \A y \in S : y <= x
Min2(a, b) == IF a <= b THEN a ELSE b
Max2(a, b) == IF a >= b THEN a ELSE b

\* ------------------------------------------------------------ sparse texts
Ordinary == "a"
Whitespace == " "
SpecialChars == {" ", ".", "?", "!"}

\* A text of length len whose character at position i is sp[i] when i is in
\* DOMAIN sp and an ordinary letter otherwise.
MkText(n, f) == [len |-> n, sp |-> f]
EmptyFn == [i \in {} |-> " "]

CharAt(t, i) == IF i \in DOMAIN t.sp THEN t.sp[i] ELSE Ordinary

\* Python's reading of a slice index i on a string of length n: a negative
\* index counts from the end, and the result is clamped to 0..n
PyIndex(i, n) == IF i < 0 THEN Max2(i + n, 0) ELSE Min2(i, n)

\* str.rfind(ch, lo, hi): highest index in [lo, hi) holding ch, or -1
rfind(t, ch, lo, hi) ==
    LET l == PyIndex(lo, t.len)
        h == PyIndex(hi, t.len)
        hits == {i \in DOMAIN t.sp : t.sp[i] = ch /\ l <= i /\ i < h}
    IN IF hits = {} THEN -1 ELSE Max(hits)

\* s[lo:hi]
Slice(t, lo, hi) ==
    LET l == PyIndex(lo, t.len)
        h == PyIndex(hi, t.len)
        n == IF h > l THEN h - l ELSE 0
        keep == {i \in DOMAIN t.sp : l <= i /\ i < h}
    IN MkText(n, [j \in {i - l : i \in keep} |-> t.sp[j + l]])

RECURSIVE LeadingWs(_, _)
LeadingWs(t, i) ==
    IF i < t.len /\ CharAt(t, i) = Whitespace THEN LeadingWs(t, i + 1) ELSE i

RECURSIVE TrailingWs(_, _)
\* the index just after the last non-whitespace character below hi
TrailingWs(t, hi) ==
    IF hi > 0 /\ CharAt(t, hi - 1) = Whitespace THEN TrailingWs(t, hi - 1) ELSE hi

\* str.strip()
strip(t) ==
    LET lo == LeadingWs(t, 0)
        hi == TrailingWs(t, t.len)
    IN IF lo >= hi THEN MkText(0, EmptyFn) ELSE Slice(t, lo, hi)

\* ------------------------------------------------------------ Python values
\* A Python str is a sequence of one-character strings and a list is a
\* sequence; a dict (mention, catalog answer, URL) is a record.  TLC compares
\* sequences only with sequences and records only with records, so Python's
\* None is written None where a str or a list is expected and NoneObj where
\* a dict or a URL is expected.
None == <<"None">>
NoneObj == [none |-> TRUE]

S_Empty == <<>>
S_Blank == <<" ">>
S_DeepWork == <<"D", "e", "e", "p", " ", "W", "o", "r", "k">>
S_DeepWorkShout == <<"D", "E", "E", "P", " ", "W", "O", "R", "K", " ">>
S_DeepWorkRules == <<"D", "e", "e", "p", " ", "W", "o", "r", "k", ":", " ", "R", "u", "l", "e", "s">>
S_DeepWater == <<"D", "e", "e", "p", " ", "W", "a", "t", "e", "r">>
S_Dune == <<"D", "u", "n", "e">>
S_NotSpecified == <<"N", "o", "t", " ", "S", "p", "e", "c", "i", "f", "i", "e", "d">>
S_CalNewport == <<"C", "a", "l", " ", "N", "e", "w", "p", "o", "r", "t">>
S_Newport == <<"N", "e", "w", "p", "o", "r", "t">>
S_FrankHerbert == <<"F", "r", "a", "n", "k", " ", "H", "e", "r", "b", "e", "r", "t">>
S_NotSpecifiedLower == <<"n", "o", "t", " ", "s", "p", "e", "c", "i", "f", "i", "e", "d">>
S_NotMentionedLower == <<"n", "o", "t", " ", "m", "e", "n", "t", "i", "o", "n", "e", "d">>
S_UnknownLower == <<"u", "n", "k", "n", "o", "w", "n">>
S_Isbn13DeepWork == <<"9", "7", "8", "1", "4", "5", "5", "5", "8", "6", "6", "9", "1">>
S_Isbn10DeepWork == <<"1", "4", "5", "5", "5", "8", "6", "6", "9", "2">>
S_Isbn13French == <<"9", "7", "9", "1", "0", "3", "2", "3", "0", "5", "6", "9", "0">>
S_Isbn13Other == <<"9", "7", "8", "-", "0", "-", "3", "0", "6", "-", "4", "0", "6", "1", "5", "-", "7">>
S_Unknown == <<"U", "n", "k", "n", "o", "w", "n">>

\* str.lower() on the letters that occur in the strings above
LowerChar(c) ==
    CASE c = "C" -> "c" [] c = "D" -> "d" [] c = "E" -> "e" [] c = "F" -> "f"
      [] c = "H" -> "h" [] c = "K" -> "k" [] c = "N" -> "n" [] c = "O" -> "o"
      [] c = "P" -> "p" [] c = "R" -> "r" [] c = "S" -> "s" [] c = "U" -> "u"
      [] c = "W" -> "w" [] OTHER -> c

lower(s) == [i \in 1..Len(s) |-> LowerChar(s[i])]

RECURSIVE LStrip(_)
LStrip(s) == IF s # <<>> /\ Head(s) = " " THEN LStrip(Tail(s)) ELSE s

RECURSIVE RStrip(_)
RStrip(s) ==
    IF s # <<>> /\ s[Len(s)] = " " THEN RStrip(SubSeq(s, 1, Len(s) - 1)) ELSE s

\* str.strip() on a Python str
Strip(s) == RStrip(LStrip(s))

\* dict.get(key, default)
Get(d, key, default) == IF key \in DOMAIN d THEN d[key] ELSE default

\* ------------------------------------------------ chunk_transcript (l.275)
\* lines 295-306: the end of the chunk that starts at s
ChunkEnd(t, s, size) ==
    LET nominal == s + size
        break_point == Max({rfind(t, ".", s, nominal),
                            rfind(t, "?", s, nominal),
                            rfind(t, "!", s, nominal)})
    IN IF nominal < t.len /\ break_point > s THEN break_point + 1 ELSE nominal

\* line 309
NextStart(t, e, ov) == IF e < t.len THEN e - ov ELSE e

\* lines 288-292: the early return for a short transcript, else loop entry
\* (the declarations below belong to the callers and are left unchanged here)
ChunkEnter ==
    /\ cpc = "call"
    /\ IF transcript.len <= chunk_size
          THEN /\ chunks' = <<transcript>>
               /\ spans' = <<[start |-> 0, end |-> transcript.len]>>
               /\ cpc' = "done"
          ELSE /\ chunks' = <<>>
               /\ spans' = <<>>
               /\ cpc' = "loop"
    /\ start' = 0
    /\ UNCHANGED <<auxVars, transcript, chunk_size, overlap, extractVars, enrichVars, procVars>>

\* lines 294-309: one iteration of the while loop
ChunkIter ==
    /\ cpc = "loop"
    /\ start < transcript.len
    /\ Len(chunks) < MaxChunks
    /\ LET end == ChunkEnd(transcript, start, chunk_size)
       IN /\ chunks' = Append(chunks, strip(Slice(transcript, start, end)))
          /\ spans' = Append(spans, [start |-> start, end |-> end])
          /\ start' = NextStart(transcript, end, overlap)
    /\ UNCHANGED <<auxVars, transcript, chunk_size, overlap, cpc, extractVars, enrichVars, procVars>>

\* lines 294, 311: the loop condition fails and the list is returned
ChunkReturn ==
    /\ cpc = "loop"
    /\ start >= transcript.len
    /\ cpc' = "done"
    /\ UNCHANGED <<auxVars, transcript, chunk_size, overlap, start, chunks, spans, extractVars, enrichVars, procVars>>

\* ---------------------------------------------- the extraction oracle's replies
\* A reply of the oracle is either an API error (the call raises) or a text:
\* a prefix, a body and a suffix, where the body is or is not a JSON object.
ApiError == [kind |-> "api_error"]
Reply(prefix, suffix, isJson, obj) ==
    [kind |-> "text", prefix |-> prefix, suffix |-> suffix, json |-> isJson, obj |-> obj]

\* the code-fence markers of lines 118-123 (three backquotes, with or without json)
FenceJson == "[fence]json"
Fence == "[fence]"

\* mentions as the oracle may produce them (untrusted)
M_DeepWork == [type |-> "book", title |-> S_DeepWork, author_creator |-> S_CalNewport]
M_DeepWorkShout == [type |-> "book", title |-> S_DeepWorkShout, author_creator |-> S_Newport]
M_DuneFilm == [type |-> "movie", title |-> S_Dune]
M_DuneBook == [type |-> "book", title |-> S_Dune, author_creator |-> S_Unknown]
M_Blank == [type |-> "book", title |-> S_Blank, author_creator |-> S_Empty]
M_NotSpecified == [type |-> "book", title |-> S_NotSpecified]
M_NullTitle == [type |-> "book", title |-> None, author_creator |-> S_CalNewport]
M_NullAuthor == [type |-> "book", title |-> S_DeepWork, author_creator |-> None]

MentionLists ==
    { <<>>,
      <<M_DeepWork>>,
      <<M_DuneFilm, M_DeepWorkShout>>,
      <<M_Blank, M_DuneBook>>,
      <<M_NotSpecified>>,
      <<M_NullTitle>>,
      <<M_NullAuthor>> }

OracleReplies ==
    {ApiError,
     Reply("", "", FALSE, <<>>),
     Reply("Sure:", "", TRUE, [recommendations |-> <<M_DeepWork>>]),
     Reply("", "", TRUE, [other |-> <<>>]),
     Reply(FenceJson, Fence, TRUE, [recommendations |-> <<M_DeepWork>>]),
     Reply(Fence, Fence, TRUE, [recommendations |-> <<M_DuneFilm, M_DeepWorkShout>>])}
    \cup {Reply("", "", TRUE, [recommendations |-> l]) : l \in MentionLists}

\* ------------------------------- ClaudeService.extract_recommendations (l.96)
\* lines 117-124: the text handed to json.loads still has a prefix or a suffix
\* unless these were code fences
StripFencePrefix(prefix) == IF prefix \in {FenceJson, Fence} THEN "" ELSE prefix
StripFenceSuffix(suffix) == IF suffix = Fence THEN "" ELSE suffix

\* lines 96-137: the list returned for one reply; no exception leaves the method
extract_recommendations(reply) ==
    IF reply.kind = "api_error" THEN <<>>
    ELSE IF /\ StripFencePrefix(reply.prefix) = ""
            /\ StripFenceSuffix(reply.suffix) = ""
            /\ reply.json
         THEN Get(reply.obj, "recommendations", <<>>)
         ELSE <<>>

\* --------------------- ClaudeService.extract_recommendations_from_chunks (l.223)
RECURSIVE SumLen(_, _)
\* sum(len(chunks[j]) for j in range(n))
SumLen(cs, n) == IF n = 0 THEN 0 ELSE SumLen(cs, n - 1) + cs[n].len

\* a loop that drops what it has collected when a chunk yields nothing
ExtendDroppingOnEmpty(all, recs) == IF recs = <<>> THEN <<>> ELSE all \o recs

\* line 273: all_recommendations.extend(recs)
Extend(all, recs) == all \o recs

\* a dedup key that keeps the letter case
TitleKeyCaseSensitive(rec) == Strip(Get(rec, "title", S_Empty))

\* line 292: rec.get(title, default).lower().strip()
TitleKey(rec) == Strip(lower(Get(rec, "title", S_Empty)))

\* line 292 raises AttributeError when the title is None
DedupRaises(recs) == \E i \in 1..Len(recs) : Get(recs[i], "title", S_Empty) = None

RECURSIVE DedupLoop(_, _, _, _)
\* lines 288-295: the loop over all_recommendations from index i on
DedupLoop(recs, i, seen_titles, unique) ==
    IF i > Len(recs) THEN unique
    ELSE LET key == TitleKey(recs[i])
         IN IF key # <<>> /\ key \notin seen_titles
               THEN DedupLoop(recs, i + 1, seen_titles \cup {key}, Append(unique, recs[i]))
               ELSE DedupLoop(recs, i + 1, seen_titles, unique)

Dedup(recs) == DedupLoop(recs, 1, {}, <<>>)

\* ----------------------- ClaudeService.extract_recommendations_smart (l.139)
Threshold == 100000
SmartChunkSize == 100000
SmartOverlap == 2000

\* a dispatcher that still sends a transcript of exactly the threshold whole
SinglePassInclusive(t) == t.len <= Threshold

\* line 166
SinglePass(t) == t.len < Threshold

NoMetadata == [processing_mode |-> "none"]

\* lines 166-200: single pass, the oracle is called with the whole transcript
SmartSinglePass ==
    /\ pc = "smart"
    /\ SinglePass(transcript)
    /\ \E reply \in OracleReplies :
         LET recs == extract_recommendations(reply)
         IN /\ oracleLog' = Append(oracleLog, [sent |-> transcript, reply |-> reply])
            /\ recommendations' = recs
            /\ claude_metadata' =
                 [processing_mode |-> "single_pass",
                  total_chunks |-> 1,
                  total_characters_sent |-> transcript.len,
                  first_chunk_position |-> 0,
                  last_chunk_position |-> 0,
                  total_recommendations_found |-> Len(recs),
                  unique_recommendations |-> Len(recs)]
    /\ pc' = "extracted"
    /\ UNCHANGED <<auxVars, chunkVars, idx, all_recommendations, chunk_metadata, enrichVars, procVars>>

\* lines 201-209: chunked, chunk_transcript(transcript, 100_000, 2000) is called
SmartChunked ==
    /\ pc = "smart"
    /\ ~SinglePass(transcript)
    /\ chunk_size' = SmartChunkSize
    /\ overlap' = SmartOverlap
    /\ cpc' = "call"
    /\ pc' = "chunking"
    /\ UNCHANGED <<auxVars, transcript, start, chunks, spans, idx, all_recommendations,
                   chunk_metadata, recommendations, claude_metadata, oracleLog,
                   enrichVars, procVars>>

\* lines 212, 240-245: extract_recommendations_from_chunks is entered
FromChunksEnter ==
    /\ pc = "chunking"
    /\ cpc = "done"
    /\ idx' = 0
    /\ all_recommendations' = <<>>
    /\ chunk_metadata' = <<>>
    /\ pc' = "chunk_loop"
    /\ UNCHANGED <<auxVars, chunkVars, recommendations, claude_metadata, oracleLog, enrichVars, procVars>>

\* lines 247-274: one iteration of the loop over the chunks
FromChunksIter ==
    /\ pc = "chunk_loop"
    /\ idx < Len(chunks)
    /\ LET chunk == chunks[idx + 1]
           chunk_start_pos == SumLen(chunks, idx)
       IN /\ chunk_metadata' = Append(chunk_metadata,
                 [chunk_number |-> idx + 1,
                  start_position |-> chunk_start_pos,
                  end_position |-> chunk_start_pos + chunk.len,
                  chunk_length |-> chunk.len])
          /\ \E reply \in OracleReplies :
               /\ oracleLog' = Append(oracleLog, [sent |-> chunk, reply |-> reply])
               /\ all_recommendations' =
                      Extend(all_recommendations, extract_recommendations(reply))
    /\ idx' = idx + 1
    /\ UNCHANGED <<auxVars, chunkVars, pc, recommendations, claude_metadata, enrichVars, procVars>>

RECURSIVE SumChunkLength(_, _)
\* line 279: sum(c['chunk_length'] for c in chunk_metadata)
SumChunkLength(md, n) == IF n = 0 THEN 0 ELSE SumChunkLength(md, n - 1) + md[n].chunk_length

\* lines 276-324 and 216-221: dedup, metadata, return to the caller
FromChunksFinish ==
    /\ pc = "chunk_loop"
    /\ idx = Len(chunks)
    /\ IF DedupRaises(all_recommendations)
          THEN /\ pc' = "raised"
               /\ UNCHANGED <<recommendations, claude_metadata>>
          ELSE /\ recommendations' = Dedup(all_recommendations)
               /\ claude_metadata' =
                    [processing_mode |-> "chunked",
                     total_chunks |-> Len(chunks),
                     total_characters_sent |-> SumChunkLength(chunk_metadata, Len(chunk_metadata)),
                     first_chunk_position |-> chunk_metadata[1].start_position,
                     last_chunk_position |-> chunk_metadata[Len(chunk_metadata)].start_position,
                     total_recommendations_found |-> Len(all_recommendations),
                     unique_recommendations |-> Len(Dedup(all_recommendations))]
               /\ pc' = "extracted"
    /\ UNCHANGED <<auxVars, chunkVars, idx, all_recommendations, chunk_metadata, oracleLog, enrichVars, procVars>>

ExtractIdle ==
    /\ pc = "idle"
    /\ idx = 0
    /\ all_recommendations = <<>>
    /\ chunk_metadata = <<>>
    /\ recommendations = <<>>
    /\ claude_metadata = NoMetadata
    /\ oracleLog = <<>>

\* transcripts given to the dispatcher: around the threshold, and long ones
\* with and without sentence terminators and blanks near the cuts
PipelineTranscripts ==
    { MkText(3, EmptyFn),
      MkText(99999, (0 :> " ")),
      MkText(100000, EmptyFn),
      MkText(100001, EmptyFn),
      MkText(150000, (60000 :> ".")),
      MkText(150000, (98000 :> " " @@ 99999 :> " ")),
      MkText(150000, (1000 :> "?")),
      MkText(150000, (1998 :> ".")),
      MkText(250000, EmptyFn) }

\* ------------------------------------------------ fuzzywuzzy.fuzz (difflib)
\* the common blocks of a[alo..ahi] and b[blo..bhi] (1-based, inclusive)
CommonBlocks(a, b, alo, ahi, blo, bhi) ==
    {m \in (alo..ahi) \X (blo..bhi) \X (1..(ahi - alo + 1)) :
        /\ m[1] + m[3] - 1 <= ahi
        /\ m[2] + m[3] - 1 <= bhi
        /\ \A d \in 0..(m[3] - 1) : a[m[1] + d] = b[m[2] + d]}

\* SequenceMatcher.find_longest_match: longest, then earliest in a, then in b
LongestMatch(a, b, alo, ahi, blo, bhi) ==
    LET ms == CommonBlocks(a, b, alo, ahi, blo, bhi)
    IN CHOOSE m \in ms :
         \A o \in ms :
            \/ m[3] > o[3]
            \/ m[3] = o[3] /\ m[1] < o[1]
            \/ m[3] = o[3] /\ m[1] = o[1] /\ m[2] <= o[2]

RECURSIVE MatchingBlocks(_, _, _, _, _, _)
\* SequenceMatcher.get_matching_blocks without the closing dummy block
MatchingBlocks(a, b, alo, ahi, blo, bhi) ==
    IF alo > ahi \/ blo > bhi \/ CommonBlocks(a, b, alo, ahi, blo, bhi) = {}
    THEN {}
    ELSE LET m == LongestMatch(a, b, alo, ahi, blo, bhi)
         IN {m} \cup MatchingBlocks(a, b, alo, m[1] - 1, blo, m[2] - 1)
                \cup MatchingBlocks(a, b, m[1] + m[3], ahi, m[2] + m[3], bhi)

RECURSIVE SumSizes(_)
SumSizes(ms) ==
    IF ms = {} THEN 0
    ELSE LET m == CHOOSE x \in ms : TRUE IN m[3] + SumSizes(ms \ {m})

\* int(round(100 * 2.0 * matches / total)), halves rounded to even
Percent(matches, total) ==
    LET q == (200 * matches) \div total
        r == (200 * matches) % total
    IN IF 2 * r < total THEN q
       ELSE IF 2 * r > total THEN q + 1
       ELSE IF q % 2 = 0 THEN q ELSE q + 1

\* SequenceMatcher(None, a, b).ratio() as a percentage
SeqRatio(a, b) ==
    IF Len(a) + Len(b) = 0 THEN 100
    ELSE Percent(SumSizes(MatchingBlocks(a, b, 1, Len(a), 1, Len(b))), Len(a) + Len(b))

\* fuzz.ratio: 0 for None or an empty string
ratio(s1, s2) ==
    IF s1 = None \/ s2 = None THEN 0
    ELSE IF Len(s1) = 0 \/ Len(s2) = 0 THEN 0
    ELSE SeqRatio(s1, s2)

\* fuzz.partial_ratio: the best ratio of the shorter string against the
\* windows of the longer one that start where a matching block lines up
partial_ratio(s1, s2) ==
    IF s1 = None \/ s2 = None THEN 0
    ELSE IF Len(s1) = 0 \/ Len(s2) = 0 THEN 0
    ELSE LET shorter == IF Len(s1) <= Len(s2) THEN s1 ELSE s2
             longer == IF Len(s1) <= Len(s2) THEN s2 ELSE s1
             blocks == MatchingBlocks(shorter, longer, 1, Len(shorter), 1, Len(longer))
                         \cup {<<Len(shorter) + 1, Len(longer) + 1, 0>>}
             window(m) ==
                 LET long_start == Max2(m[2] - m[1], 0)
                 IN SubSeq(longer, long_start + 1,
                           Min2(long_start + Len(shorter), Len(longer)))
         IN Max({SeqRatio(shorter, window(m)) : m \in blocks})

\* ------------------------------------------------------- GoogleBooksService
\* str.join
RECURSIVE Join(_, _)
Join(sep, parts) ==
    IF parts = <<>> THEN <<>>
    ELSE IF Len(parts) = 1 THEN parts[1]
    ELSE parts[1] \o sep \o Join(sep, Tail(parts))

Digits == {"0", "1", "2", "3", "4", "5", "6", "7", "8", "9"}
DigitValue(c) ==
    CASE c = "0" -> 0 [] c = "1" -> 1 [] c = "2" -> 2 [] c = "3" -> 3 [] c = "4" -> 4
      [] c = "5" -> 5 [] c = "6" -> 6 [] c = "7" -> 7 [] c = "8" -> 8 [] c = "9" -> 9
DigitChar(n) ==
    CASE n = 0 -> "0" [] n = 1 -> "1" [] n = 2 -> "2" [] n = 3 -> "3" [] n = 4 -> "4"
      [] n = 5 -> "5" [] n = 6 -> "6" [] n = 7 -> "7" [] n = 8 -> "8" [] n = 9 -> "9"

IsDigit(c) == c \in Digits
IsIsbnChar(c) == c \in Digits \cup {"X"}
UpperX(s) == [i \in 1..Len(s) |-> IF s[i] = "x" THEN "X" ELSE s[i]]

\* re.sub(r'[^0-9X]', '', isbn.upper())
CleanIsbn(isbn) == SelectSeq(UpperX(isbn), IsIsbnChar)

RECURSIVE WeightedSum(_, _)
\* lines 239-241: sum of int(digit) * (10 - i) over the first n digits of base
WeightedSum(base, n) ==
    IF n = 0 THEN 0
    ELSE WeightedSum(base, n - 1) + DigitValue(base[n]) * (10 - (n - 1))

\* lines 217-250
isbn13_to_isbn10_plain_remainder(isbn13) ==
    LET digits == SelectSeq(isbn13, IsDigit)
    IN IF ~(Len(digits) >= 3 /\ SubSeq(digits, 1, 3) = <<"9", "7", "8">>)
       THEN None
       ELSE LET isbn10_base == SubSeq(digits, 4, Min2(12, Len(digits)))
                check_sum == WeightedSum(isbn10_base, Len(isbn10_base))
                check_digit == check_sum % 11
                check_char == IF check_digit = 10 THEN "X" ELSE DigitChar(check_digit)
            IN Append(isbn10_base, check_char)
isbn13_to_isbn10(isbn13) ==
    LET digits == SelectSeq(isbn13, IsDigit)
    IN IF ~(Len(digits) >= 3 /\ SubSeq(digits, 1, 3) = <<"9", "7", "8">>)
       THEN None
       ELSE LET isbn10_base == SubSeq(digits, 4, Min2(12, Len(digits)))
                check_sum == WeightedSum(isbn10_base, Len(isbn10_base))
                check_digit == (11 - (check_sum % 11)) % 11
                check_char == IF check_digit = 10 THEN "X" ELSE DigitChar(check_digit)
            IN Append(isbn10_base, check_char)

\* lines 252-268, 270-285, 287-298: cover URLs are built from the ISBN alone
get_amazon_image_url(isbn_10) == [site |-> "amazon-images", isbn |-> CleanIsbn(isbn_10)]
get_open_library_cover(isbn) == [site |-> "openlibrary", isbn |-> CleanIsbn(isbn)]
get_fallback_image_url(isbn) == [site |-> "openlibrary", isbn |-> CleanIsbn(isbn)]

\* a Python value that is falsy: None, an empty str or an empty list
Falsy(v) == v = None \/ v = <<>>

\* lines 161-169: the catalog's own image, http upgraded to https
GoogleImage(image_links) ==
    LET pick == IF Get(image_links, "large", NoneObj) # NoneObj THEN image_links.large
                ELSE IF Get(image_links, "medium", NoneObj) # NoneObj THEN image_links.medium
                ELSE IF Get(image_links, "thumbnail", NoneObj) # NoneObj THEN image_links.thumbnail
                ELSE Get(image_links, "smallThumbnail", NoneObj)
    IN IF pick = NoneObj THEN NoneObj
       ELSE [site |-> "google", scheme |-> "https", id |-> pick.id]

\* lines 131-138: the last identifier of each declared type
RECURSIVE IsbnOfType(_, _)
IsbnOfType(identifiers, type) ==
    IF identifiers = <<>> THEN None
    ELSE LET last == identifiers[Len(identifiers)]
         IN IF last.type = type THEN last.identifier
            ELSE IsbnOfType(SubSeq(identifiers, 1, Len(identifiers) - 1), type)

\* lines 119-206
extract_book_metadata(volume_info) ==
    LET isbn_10 == IsbnOfType(Get(volume_info, "industryIdentifiers", <<>>), "ISBN_10")
        isbn_13 == IsbnOfType(Get(volume_info, "industryIdentifiers", <<>>), "ISBN_13")
        image_links == Get(volume_info, "imageLinks", NoneObj)
        amazon_isbn_10 == IF ~Falsy(isbn_10) THEN isbn_10
                          ELSE IF ~Falsy(isbn_13) THEN isbn13_to_isbn10(isbn_13)
                          ELSE None
        image_url == IF ~Falsy(amazon_isbn_10) THEN get_amazon_image_url(amazon_isbn_10)
                     ELSE IF ~Falsy(isbn_13) THEN get_open_library_cover(isbn_13)
                     ELSE IF ~Falsy(isbn_10) THEN get_open_library_cover(isbn_10)
                     ELSE GoogleImage(image_links)
        vtitle == Get(volume_info, "title", None)
        authors == Get(volume_info, "authors", <<>>)
        base == [title |-> vtitle,
                 authors |-> authors,
                 author |-> Join(<<",", " ">>, authors),
                 isbn_10 |-> isbn_10,
                 isbn_13 |-> isbn_13,
                 image_url |-> image_url]
    IN IF ~Falsy(Get(volume_info, "title", <<>>))
          THEN base @@ [amazon_url |->
                          [site |-> "amazon-search",
                           query |-> IF authors # <<>>
                                        THEN vtitle \o <<" ">> \o authors[1]
                                        ELSE vtitle]]
          ELSE base

Id_13(isbn) == [type |-> "ISBN_13", identifier |-> isbn]
Id_10(isbn) == [type |-> "ISBN_10", identifier |-> isbn]
HttpThumb == [thumbnail |-> [site |-> "google", scheme |-> "http", id |-> "thumb"]]

\* volumes the catalog may return as its first result
CatalogVolumes ==
    { [title |-> S_DeepWork, authors |-> <<S_CalNewport>>,
       industryIdentifiers |-> <<Id_10(S_Isbn10DeepWork), Id_13(S_Isbn13DeepWork)>>],
      [title |-> S_DeepWorkRules, authors |-> <<S_CalNewport>>,
       industryIdentifiers |-> <<Id_13(S_Isbn13French)>>, imageLinks |-> HttpThumb],
      [title |-> S_DeepWater, authors |-> <<S_FrankHerbert>>,
       industryIdentifiers |-> <<Id_13(S_Isbn13Other)>>],
      [authors |-> <<S_CalNewport>>,
       industryIdentifiers |-> <<Id_13(S_Isbn13DeepWork)>>],
      [title |-> S_Dune, authors |-> <<S_FrankHerbert>>, imageLinks |-> HttpThumb],
      [title |-> S_DeepWork, industryIdentifiers |-> <<Id_13(S_Isbn13DeepWork)>>] }

\* search_book, lines 23-67: None when nothing is found or the request fails
CatalogAnswers == {NoneObj} \cup {extract_book_metadata(v) : v \in CatalogVolumes}

\* ---------------------------------------------------- BookEnrichmentService
PlaceholderStrings == {S_NotSpecifiedLower, S_NotMentionedLower, S_UnknownLower}

TitleThreshold == 70
AuthorThreshold == 60

\* line 106-111: found_title.lower() raises AttributeError on None
is_good_match_raises(gd) == Get(gd, "title", <<>>) = None

\* lines 93-134
is_good_match(original_title, original_author, gd) ==
    LET found_title == Get(gd, "title", <<>>)
        title_similarity == ratio(lower(original_title), lower(found_title))
    IN IF title_similarity < TitleThreshold THEN FALSE
       ELSE IF ~Falsy(original_author)
            THEN LET found_author_str == lower(Join(<<" ">>, Get(gd, "authors", <<>>)))
                     author_similarity == partial_ratio(lower(original_author), found_author_str)
                 IN author_similarity >= AuthorThreshold
            ELSE TRUE

\* lines 136-177
has_required_fields(gd) ==
    /\ ~Falsy(Get(gd, "title", None))
    /\ ~Falsy(Get(gd, "author", None))
    /\ (~Falsy(Get(gd, "isbn_10", None)) \/ ~Falsy(Get(gd, "isbn_13", None)))

\* lines 78-88: the fallback cover when the catalog's answer carried none
FallbackCover(isbn_10, isbn_13) ==
    IF ~Falsy(isbn_10) THEN get_amazon_image_url(isbn_10)
    ELSE IF ~Falsy(isbn_13)
         THEN IF ~Falsy(isbn13_to_isbn10(isbn_13))
                 THEN get_amazon_image_url(isbn13_to_isbn10(isbn_13))
                 ELSE get_fallback_image_url(isbn_13)
         ELSE NoneObj

\* lines 56-91
BuildEnriched(gd) ==
    LET isbn_10 == Get(gd, "isbn_10", None)
        isbn_13 == Get(gd, "isbn_13", None)
        cover == Get(gd, "image_url", NoneObj)
    IN [title |-> gd.title,
        author |-> gd.author,
        isbn |-> IF ~Falsy(isbn_13) THEN isbn_13 ELSE isbn_10,
        isbn_10 |-> isbn_10,
        isbn_13 |-> isbn_13,
        coverImageUrl |-> IF cover # NoneObj THEN cover ELSE FallbackCover(isbn_10, isbn_13),
        amazonUrl |-> Get(gd, "amazon_url", NoneObj),
        verified |-> TRUE]

\* lines 25-35: title and author are read; a placeholder title is refused
EnrichStart ==
    /\ epc = "start"
    /\ LET raw_title == Get(book_data, "title", S_Empty)
           raw_author == Get(book_data, "author_creator", S_Empty)
       IN IF raw_title = None \/ raw_author = None
             THEN /\ epc' = "raised"
                  /\ UNCHANGED <<title, author, enriched>>
             ELSE /\ title' = Strip(raw_title)
                  /\ IF Strip(raw_title) = <<>> \/ lower(Strip(raw_title)) \in PlaceholderStrings
                        THEN /\ enriched' = NoneObj
                             /\ epc' = "returned"
                             /\ author' = Strip(raw_author)
                        ELSE /\ author' = IF lower(Strip(raw_author)) \in PlaceholderStrings
                                             THEN None ELSE Strip(raw_author)
                             /\ epc' = "search"
                             /\ UNCHANGED enriched
    /\ UNCHANGED <<auxVars, book_data, google_data, netCalls, chunkVars, extractVars, procVars>>

\* line 40: the catalog is searched (one HTTP request) and answers
EnrichSearch ==
    /\ epc = "search"
    /\ \E answer \in CatalogAnswers : google_data' = answer
    /\ netCalls' = Append(netCalls, [kind |-> "catalog_search", title |-> title, author |-> author])
    /\ epc' = "check"
    /\ UNCHANGED <<auxVars, book_data, title, author, enriched, chunkVars, extractVars, procVars>>

\* lines 42-91: the answer is checked and the enriched record built
EnrichFinish ==
    /\ epc = "check"
    /\ IF google_data = NoneObj
          THEN enriched' = NoneObj /\ epc' = "returned"
          ELSE IF is_good_match_raises(google_data)
          THEN UNCHANGED enriched /\ epc' = "raised"
          ELSE IF ~is_good_match(title, author, google_data)
          THEN enriched' = NoneObj /\ epc' = "returned"
          ELSE IF ~has_required_fields(google_data)
          THEN enriched' = NoneObj /\ epc' = "returned"
          ELSE enriched' = BuildEnriched(google_data) /\ epc' = "returned"
    /\ UNCHANGED <<auxVars, book_data, title, author, google_data, netCalls, chunkVars, extractVars, procVars>>

EnrichIdle ==
    /\ epc = "idle"
    /\ book_data = [type |-> "none"]
    /\ title = <<>>
    /\ author = <<>>
    /\ google_data = NoneObj
    /\ enriched = NoneObj
    /\ netCalls = <<>>

\* mentions handed to enrich_book_recommendation
EnrichInputs ==
    { M_DeepWork, M_DeepWorkShout, M_DuneBook, M_Blank, M_NotSpecified,
      M_NullTitle, M_NullAuthor,
      [type |-> "book", title |-> S_DeepWork],
      [type |-> "book", author_creator |-> S_CalNewport],
      [type |-> "book", title |-> S_Unknown, author_creator |-> None],
      [type |-> "book", title |-> S_DeepWork, author_creator |-> S_FrankHerbert],
      [type |-> "book", title |-> S_DeepWater, author_creator |-> S_Empty],
      [type |-> "book", title |-> S_DeepWorkRules, author_creator |-> S_Newport],
      [type |-> "book", title |-> S_Blank, author_creator |-> None] }

\* ------------------------------------------- MetricsService (metrics_service.py)
\* lines 55-58
CoverageVerified(tm, cm) ==
    Get(tm, "character_count", 0) = Get(cm, "total_characters_sent", 0)

RECURSIVE CountType(_, _)
\* lines 50-52: sum(1 for r in recommendations if r.get('type') in types)
CountType(recs, types) ==
    IF recs = <<>> THEN 0
    ELSE (IF Get(Head(recs), "type", "") \in types THEN 1 ELSE 0) + CountType(Tail(recs), types)

\* lines 60-102
MetricsRow(tm, cm, recs) ==
    [character_count |-> Get(tm, "character_count", 0),
     total_chunks |-> Get(cm, "total_chunks", 0),
     total_characters_sent |-> Get(cm, "total_characters_sent", 0),
     coverage_verified |-> CoverageVerified(tm, cm),
     processing_mode |-> Get(cm, "processing_mode", "none"),
     total_recommendations_found |-> Get(cm, "total_recommendations_found", 0),
     unique_recommendations |-> Get(cm, "unique_recommendations", 0),
     books_found |-> CountType(recs, {"book"}),
     movies_found |-> CountType(recs, {"movie", "tv_show"}),
     products_found |-> CountType(recs, {"product"})]

\* ------------------------------------ process_episode (process_all_pending.py)
\* lines 195-197: the keys copied into extra_metadata for a book
ExtraFields == {"author", "isbn", "isbn_10", "isbn_13", "coverImageUrl", "amazonUrl", "verified"}

\* lines 190-215: the Recommendation built from rec_data is added to the session
RowsAfter(rows, rec_data, enriched_data) ==
    Append(rows,
       [type |-> Get(rec_data, "type", "other"),
        title |-> Get(rec_data, "title", S_Empty),
        data |-> rec_data,
        extra_keys |-> IF Get(rec_data, "type", "other") = "book"
                          THEN ExtraFields \cap DOMAIN rec_data ELSE {}])

\* Recommendation.title is declared nullable=False (recommendation.py l.16)
CommitRaises(rows) == \E i \in 1..Len(rows) : rows[i].title = None

ResetChunking ==
    /\ chunk_size' = 0
    /\ overlap' = 0
    /\ start' = 0
    /\ chunks' = <<>>
    /\ spans' = <<>>
    /\ cpc' = "idle"

ResetEnrich ==
    /\ epc' = "idle"
    /\ book_data' = [type |-> "none"]
    /\ title' = <<>>
    /\ author' = <<>>
    /\ google_data' = NoneObj
    /\ enriched' = NoneObj
    /\ netCalls' = <<>>

\* lines 109-115 and 131-139: no video id or no transcript, the episode fails
FetchFails ==
    /\ pc = "start"
    /\ session_status' = "failed"
    /\ db_status' = "failed"
    /\ pc' = "returned"
    /\ UNCHANGED <<auxVars, chunkVars, idx, all_recommendations, chunk_metadata, recommendations,
                   claude_metadata, oracleLog, enrichVars, transcript_metadata, ri,
                   pending, db_recs, metrics>>

\* lines 131-153: the transcript is fetched, the episode is marked processing
\* and the status committed
FetchTranscript ==
    /\ pc = "start"
    /\ \E t \in PipelineTranscripts :
         /\ transcript' = t
         /\ transcript_metadata' = [character_count |-> t.len]
    /\ session_status' = "processing"
    /\ db_status' = "processing"
    /\ pc' = "smart"
    /\ UNCHANGED <<auxVars, chunk_size, overlap, start, chunks, spans, cpc, idx,
                   all_recommendations, chunk_metadata, recommendations,
                   claude_metadata, oracleLog, enrichVars, ri, pending, db_recs, metrics>>

\* lines 158-171: extract_recommendations_smart has returned; its locals and
\* those of chunk_transcript are gone
StoreMetadata ==
    /\ pc = "extracted"
    /\ ri' = 0
    /\ idx' = 0
    /\ all_recommendations' = <<>>
    /\ chunk_metadata' = <<>>
    /\ oracleLog' = <<>>
    /\ oracle_unreachable' = (oracleLog # <<>> /\ \A i \in 1..Len(oracleLog) :
                                                    oracleLog[i].reply = ApiError)
    /\ ResetChunking
    /\ pc' = "rec_loop"
    /\ UNCHANGED <<aggVars, isbnVars, verifyVars, aggregates_before, moreVars,
                   transcript, recommendations, claude_metadata, enrichVars,
                   transcript_metadata, session_status, db_status, pending, db_recs, metrics>>

\* lines 173-215 for a mention that is not a book
SaveOther ==
    /\ pc = "rec_loop"
    /\ ri < Len(recommendations)
    /\ Get(recommendations[ri + 1], "type", "") # "book"
    /\ pending' = RowsAfter(pending, recommendations[ri + 1], NoneObj)
    /\ ri' = ri + 1
    /\ UNCHANGED <<auxVars, chunkVars, extractVars, enrichVars, transcript_metadata,
                   session_status, db_status, db_recs, metrics>>

\* lines 179-182: enrich_book_recommendation(rec_data) is called for a book
EnrichCall ==
    /\ pc = "rec_loop"
    /\ ri < Len(recommendations)
    /\ Get(recommendations[ri + 1], "type", "") = "book"
    /\ book_data' = recommendations[ri + 1]
    /\ epc' = "start"
    /\ pc' = "enriching"
    /\ UNCHANGED <<auxVars, chunkVars, idx, all_recommendations, chunk_metadata, recommendations,
                   claude_metadata, oracleLog, title, author, google_data, enriched,
                   netCalls, procVars>>

\* lines 184-215: rec_data.update(enriched_data) when enrichment succeeded,
\* then the Recommendation is created and added whatever the outcome
SaveBook ==
    /\ pc = "enriching"
    /\ epc = "returned"
    /\ LET rec_data == IF enriched # NoneObj
                          THEN enriched @@ recommendations[ri + 1]
                          ELSE recommendations[ri + 1]
       IN /\ recommendations' = [recommendations EXCEPT ![ri + 1] = rec_data]
          /\ pending' = RowsAfter(pending, rec_data, enriched)
    /\ ri' = ri + 1
    /\ pc' = "rec_loop"
    /\ ResetEnrich
    /\ UNCHANGED <<auxVars, chunkVars, idx, all_recommendations, chunk_metadata, claude_metadata,
                   oracleLog, transcript_metadata, session_status, db_status, db_recs, metrics>>

\* line 182: enrich_book_recommendation raised; the exception leaves process_episode
EnrichRaised ==
    /\ pc = "enriching"
    /\ epc = "raised"
    /\ pc' = "raised"
    /\ ResetEnrich
    /\ UNCHANGED <<auxVars, chunkVars, idx, all_recommendations, chunk_metadata, recommendations,
                   claude_metadata, oracleLog, procVars>>

\* lines 217-220: the episode is marked completed and the session committed
Complete ==
    /\ pc = "rec_loop"
    /\ ri = Len(recommendations)
    /\ session_status' = "completed"
    /\ IF CommitRaises(pending)
          THEN /\ pc' = "raised"
               /\ UNCHANGED <<db_status, pending, db_recs>>
          ELSE /\ db_status' = "completed"
               /\ db_recs' = db_recs \o pending
               /\ pending' = <<>>
               /\ pc' = "metrics"
    /\ UNCHANGED <<auxVars, chunkVars, idx, all_recommendations, chunk_metadata, recommendations,
                   claude_metadata, oracleLog, enrichVars, transcript_metadata, ri, metrics>>

\* lines 222-255: the metrics row is written and process_episode returns
SaveMetrics ==
    /\ pc = "metrics"
    /\ metrics' = Append(metrics, MetricsRow(transcript_metadata, claude_metadata, recommendations))
    /\ pc' = "returned"
    /\ UNCHANGED <<auxVars, chunkVars, idx, all_recommendations, chunk_metadata, recommendations,
                   claude_metadata, oracleLog, enrichVars, transcript_metadata, ri,
                   session_status, db_status, pending, db_recs>>

\* metrics_service.py lines 104-105 and process_all_pending.py line 231: the
\* commit of the metrics row raises (the database is locked); nothing in
\* save_processing_metrics or process_episode catches it
SaveMetricsRaises ==
    /\ pc = "metrics"
    /\ pc' = "raised"
    /\ UNCHANGED <<auxVars, chunkVars, idx, all_recommendations, chunk_metadata,
                   recommendations, claude_metadata, oracleLog, enrichVars, procVars>>

\* main, lines 326-335: an exception left process_episode; the session is
\* rolled back and the episode marked failed
MainExcept ==
    /\ pc = "raised"
    /\ pending' = <<>>
    /\ session_status' = "failed"
    /\ db_status' = "failed"
    /\ pc' = "returned"
    /\ UNCHANGED <<auxVars, chunkVars, idx, all_recommendations, chunk_metadata, recommendations,
                   claude_metadata, oracleLog, enrichVars, transcript_metadata, ri,
                   db_recs, metrics>>

\* main, lines 326-335: an exception left process_episode and the commit of
\* the failed status raises too (safe_commit re-raises when the database
\* stays locked or on any other error); the error is logged, the session
\* rolled back, and the loop goes on with the status as it was committed
MainExceptCommitRaises ==
    /\ pc = "raised"
    /\ pending' = <<>>
    /\ session_status' = db_status
    /\ pc' = "returned"
    /\ UNCHANGED <<auxVars, chunkVars, idx, all_recommendations, chunk_metadata, recommendations,
                   claude_metadata, oracleLog, enrichVars, transcript_metadata, ri,
                   db_status, db_recs, metrics>>

ProcIdle ==
    /\ transcript_metadata = [character_count |-> 0]
    /\ ri = 0
    /\ session_status = "pending"
    /\ db_status = "pending"
    /\ pending = <<>>
    /\ db_recs = <<>>
    /\ metrics = <<>>
    /\ oracle_unreachable = FALSE

\* ------------------------ create_book_aggregates (scripts/create_book_aggregates.py)
S_DuneUpper == <<"D", "U", "N", "E">>
N_Tim == <<"T", "i", "m">>
N_Lenny == <<"L", "e", "n", "n", "y">>

\* Python: a or b
PyOr(a, b) == IF Falsy(a) THEN b ELSE a

InSeq(x, seq) == \E i \in 1..Len(seq) : seq[i] = x

\* line 52 and the metadata.get(...) calls: metadata = book.extra_metadata or {}
AggMeta(book, key) ==
    IF book.extra_metadata = NoneObj THEN None ELSE Get(book.extra_metadata, key, None)

\* lines 55-57
AggIsbn13(book) == PyOr(AggMeta(book, "isbn_13"), AggMeta(book, "isbn13"))
AggIsbn10(book) == PyOr(AggMeta(book, "isbn_10"), AggMeta(book, "isbn10"))
AggIsbn(book) == AggMeta(book, "isbn")

\* line 58: unique_key = isbn_13 or isbn_10 or isbn or book.title
unique_key_title_first(book) ==
    PyOr(PyOr(PyOr(book.title, AggIsbn13(book)), AggIsbn10(book)), AggIsbn(book))
unique_key(book) ==
    PyOr(PyOr(PyOr(AggIsbn13(book), AggIsbn10(book)), AggIsbn(book)), book.title)

\* the position of key in book_map, 0 when it is not a key of the dict
KeyIndex(map, key) ==
    IF \E i \in 1..Len(map) : map[i].key = key
       THEN CHOOSE i \in 1..Len(map) : map[i].key = key
       ELSE 0

\* lines 62-88: the dict stored for the first occurrence of a key (the
\* metadata columns of lines 69-84 are copied the way author is)
NewAggregate(book, id) ==
    [id |-> id,
     isbn |-> AggIsbn(book),
     isbn_10 |-> AggIsbn10(book),
     isbn_13 |-> AggIsbn13(book),
     title |-> book.title,
     author |-> AggMeta(book, "author"),
     recommended_by |-> IF Falsy(book.recommended_by) THEN <<>> ELSE <<book.recommended_by>>,
     recommendation_count |-> 1,
     recommendation_ids |-> <<book.id>>]

\* lines 90-94: a later occurrence of the key
AddRecommendationCountingRecommenders(agg, book) ==
    [agg EXCEPT
       !.recommended_by = IF ~Falsy(book.recommended_by) /\ ~InSeq(book.recommended_by, @)
                             THEN Append(@, book.recommended_by) ELSE @,
       !.recommendation_count = Len(agg.recommended_by),
       !.recommendation_ids = Append(@, book.id)]
AddRecommendation(agg, book) ==
    [agg EXCEPT
       !.recommended_by = IF ~Falsy(book.recommended_by) /\ ~InSeq(book.recommended_by, @)
                             THEN Append(@, book.recommended_by) ELSE @,
       !.recommendation_count = @ + 1,
       !.recommendation_ids = Append(@, book.id)]

\* line 111: the session is committed every 100 inserted rows
CommitEvery == 100

\* lines 29-48: the book rows are fetched
AggFetch ==
    /\ apc = "start"
    /\ books' = rec_table
    /\ book_map' = <<>>
    /\ bi' = 0
    /\ apc' = "group"
    /\ aggregates_before' = book_aggregates
    /\ UNCHANGED <<rec_table, agg_session, book_aggregates, uuid_next, agg_runs,
                   prev_aggregates, isbnVars, verifyVars, oracle_unreachable,
                   chunkVars, extractVars, enrichVars, procVars, moreVars>>

\* lines 50-94: one iteration of the loop over books
AggGroup ==
    /\ apc = "group"
    /\ bi < Len(books)
    /\ LET book == books[bi + 1]
           k == KeyIndex(book_map, unique_key(book))
       IN IF k = 0
             THEN /\ book_map' = Append(book_map, [key |-> unique_key(book),
                                                   value |-> NewAggregate(book, uuid_next)])
                  /\ uuid_next' = uuid_next + 1
             ELSE /\ book_map' = [book_map EXCEPT ![k].value = AddRecommendation(@, book)]
                  /\ UNCHANGED uuid_next
    /\ bi' = bi + 1
    /\ UNCHANGED <<apc, rec_table, books, agg_session, book_aggregates, agg_runs,
                   prev_aggregates, isbnVars, verifyVars,
                   chunkVars, extractVars, enrichVars, procVars, histVars, moreVars>>

\* lines 98-105: DELETE FROM book_aggregates is executed and committed
AggClearKeepingRows ==
    /\ apc = "group"
    /\ bi = Len(books)
    /\ bi' = 0
    /\ apc' = "insert"
    /\ UNCHANGED <<rec_table, books, book_map, agg_session, book_aggregates, uuid_next,
                   agg_runs, prev_aggregates, isbnVars, verifyVars,
                   chunkVars, extractVars, enrichVars, procVars, histVars, moreVars>>
AggClear ==
    /\ apc = "group"
    /\ bi = Len(books)
    /\ book_aggregates' = <<>>
    /\ bi' = 0
    /\ apc' = "insert"
    /\ UNCHANGED <<rec_table, books, book_map, agg_session, uuid_next, agg_runs,
                   prev_aggregates, isbnVars, verifyVars,
                   chunkVars, extractVars, enrichVars, procVars, histVars, moreVars>>

\* lines 106-113: one BookAggregate is added; every 100th add commits
AggInsert ==
    /\ apc = "insert"
    /\ bi < Len(book_map)
    /\ LET added == Append(agg_session, book_map[bi + 1].value)
       IN IF (bi + 1) % CommitEvery = 0
             THEN /\ book_aggregates' = book_aggregates \o added
                  /\ agg_session' = <<>>
             ELSE /\ agg_session' = added
                  /\ UNCHANGED book_aggregates
    /\ bi' = bi + 1
    /\ UNCHANGED <<apc, rec_table, books, book_map, uuid_next, agg_runs,
                   prev_aggregates, isbnVars, verifyVars,
                   chunkVars, extractVars, enrichVars, procVars, histVars, moreVars>>

\* lines 115-133: the final commit succeeds and the script ends
AggCommit ==
    /\ apc = "insert"
    /\ bi = Len(book_map)
    /\ book_aggregates' = book_aggregates \o agg_session
    /\ agg_session' = <<>>
    /\ apc' = "done"
    /\ UNCHANGED <<rec_table, books, bi, book_map, uuid_next, agg_runs,
                   prev_aggregates, isbnVars, verifyVars,
                   chunkVars, extractVars, enrichVars, procVars, histVars, moreVars>>

\* lines 115 and 135-140: the final commit raises (the store is unreachable);
\* the session is rolled back and the exception re-raised
AggCommitRaises ==
    /\ apc = "insert"
    /\ bi = Len(book_map)
    /\ agg_session' = <<>>
    /\ apc' = "raised"
    /\ UNCHANGED <<rec_table, books, bi, book_map, book_aggregates, uuid_next, agg_runs,
                   prev_aggregates, isbnVars, verifyVars,
                   chunkVars, extractVars, enrichVars, procVars, histVars, moreVars>>

\* lines 143-144: the script is run again on the same recommendations
AggRerun ==
    /\ apc \in {"done", "raised"}
    /\ agg_runs < MaxRuns
    /\ agg_runs' = agg_runs + 1
    /\ prev_aggregates' = IF apc = "done"
                             THEN [valid |-> TRUE, rows |-> book_aggregates]
                             ELSE prev_aggregates
    /\ books' = <<>>
    /\ book_map' = <<>>
    /\ bi' = 0
    /\ apc' = "start"
    /\ UNCHANGED <<rec_table, agg_session, book_aggregates, uuid_next,
                   isbnVars, verifyVars, chunkVars, extractVars, enrichVars, procVars, histVars, moreVars>>

\* book rows of table recommendations (id, title, recommended_by, extra_metadata)
BookRows ==
    { [id |-> "r1", title |-> S_DeepWork, recommended_by |-> N_Tim,
       extra_metadata |-> [isbn_13 |-> S_Isbn13DeepWork, isbn_10 |-> S_Isbn10DeepWork,
                           isbn |-> S_Isbn13DeepWork, author |-> S_CalNewport]],
      [id |-> "r2", title |-> S_DeepWorkRules, recommended_by |-> N_Lenny,
       extra_metadata |-> [isbn_13 |-> S_Isbn13DeepWork, isbn |-> S_Isbn13DeepWork,
                           author |-> S_Newport]],
      [id |-> "r3", title |-> S_DeepWork, recommended_by |-> N_Tim,
       extra_metadata |-> [isbn13 |-> S_Isbn13French, author |-> S_CalNewport]],
      [id |-> "r4", title |-> S_Dune, recommended_by |-> N_Lenny,
       extra_metadata |-> NoneObj],
      [id |-> "r5", title |-> S_DuneUpper, recommended_by |-> S_Empty,
       extra_metadata |-> [author |-> S_FrankHerbert]],
      [id |-> "r6", title |-> S_DeepWork, recommended_by |-> N_Lenny,
       extra_metadata |-> [isbn_10 |-> S_Isbn10DeepWork]],
      [id |-> "r7", title |-> S_Dune, recommended_by |-> None,
       extra_metadata |-> [isbn |-> S_Isbn13French, isbn_13 |-> None]] }

\* an aggregate left in the table by a run on recommendations since deleted
StaleAggregate ==
    [id |-> 0, isbn |-> None, isbn_10 |-> None, isbn_13 |-> None,
     title |-> S_DeepWater, author |-> None, recommended_by |-> <<N_Tim>>,
     recommendation_count |-> 1, recommendation_ids |-> <<"r0">>]

RECURSIVE DistinctSeqs(_, _)
\* the sequences of at most n distinct elements of S
DistinctSeqs(S, n) ==
    IF n = 0 THEN {<<>>}
    ELSE {<<>>} \cup UNION {{<<x>> \o q : q \in DistinctSeqs(S \ {x}, n - 1)} : x \in S}

AggIdle ==
    /\ apc = "idle"
    /\ rec_table = <<>>
    /\ books = <<>>
    /\ bi = 0
    /\ book_map = <<>>
    /\ agg_session = <<>>
    /\ book_aggregates = <<>>
    /\ uuid_next = 1
    /\ agg_runs = 0
    /\ prev_aggregates = [valid |-> FALSE, rows |-> <<>>]
    /\ aggregates_before = <<>>

\* ------------------------------- GoogleBooksService._isbn13_to_isbn10 called alone
\* lines 226-250: the conversion; an argument that is not a str makes re.sub
\* raise, which the except clause turns into None
IsbnConvert ==
    /\ ipc = "call"
    /\ isbn10_result' = IF isbn13_arg = None THEN None ELSE isbn13_to_isbn10(isbn13_arg)
    /\ ipc' = "returned"
    /\ UNCHANGED <<isbn13_arg, aggVars, verifyVars, chunkVars, extractVars, enrichVars, procVars, histVars, moreVars>>

IsbnPrefixes == {<<"9", "7", "8">>, <<"9", "7", "9">>, <<"9", "7", "7">>}
IsbnBodies ==
    {<<a, b, c>> \o <<"0", "6", "4", "0", "6", "1">> : a, b, c \in {"0", "3", "9"}}
IsbnLengths == {0, 2, 3, 4, 10, 12, 13, 14}

\* arguments: None, a hyphenated ISBN-13 and the prefixes (of the lengths
\* above) of 14-digit strings
IsbnInputs ==
    {None, S_Isbn13Other, S_Isbn13DeepWork, S_Isbn13French}
    \cup {SubSeq(p \o b \o <<"5", "5">>, 1, n) :
             p \in IsbnPrefixes, b \in IsbnBodies, n \in IsbnLengths}

IsbnIdle ==
    /\ ipc = "idle"
    /\ isbn13_arg = None
    /\ isbn10_result = None

\* ---------------- YouTubeService.get_transcript_with_verification (l.113-225)
\* Times are in tenths of a second; the inputs below are multiples of 0.5 s,
\* for which the float arithmetic of the code is exact.
Tenths(seconds) == seconds * 10

GapThreshold == 2      \* line 160: gap > 2.0
MinSegments == 10      \* line 191: total_segments > 10
MinChars == 1000       \* line 192: char_count > 1000
GapRatioDen == 10      \* line 193: len(gaps) < total_segments * 0.1
GapsStored == 10       \* line 217: gaps[:10]

\* lines 150-151: len(" ".join(s.text for s in segments))
RECURSIVE JoinedLength(_)
JoinedLength(segs) ==
    IF segs = <<>> THEN 0
    ELSE IF Len(segs) = 1 THEN segs[1].text_len
    ELSE segs[1].text_len + 1 + JoinedLength(Tail(segs))

\* lines 157-159
GapAfter(segs, i) == segs[i + 2].start - (segs[i + 1].start + segs[i + 1].duration)

\* lines 160-165, i being the 0-based index of the loop
IsGapInclusive(segs, i) == GapAfter(segs, i) >= Tenths(GapThreshold)
IsGap(segs, i) == GapAfter(segs, i) > Tenths(GapThreshold)

GapRecord(segs, i) ==
    [position |-> i, gap_seconds |-> GapAfter(segs, i),
     time |-> segs[i + 1].start + segs[i + 1].duration]

\* lines 190-194 (10 * gaps < segments is what the float comparison
\* gaps < segments * 0.1 evaluates to for every count below 100000)
is_complete_at_least(total_segments, char_count, n_gaps) ==
    /\ total_segments >= MinSegments
    /\ char_count > MinChars
    /\ GapRatioDen * n_gaps < total_segments
is_complete(total_segments, char_count, n_gaps) ==
    /\ total_segments > MinSegments
    /\ char_count > MinChars
    /\ GapRatioDen * n_gaps < total_segments

\* lines 121-150: the snippets are fetched; no snippet means None
VerifyFetch ==
    /\ vpc = "call"
    /\ IF segments = <<>>
          THEN /\ vpc' = "returned"
               /\ quality_metadata' = NoneObj
          ELSE /\ vpc' = "gaps"
               /\ UNCHANGED quality_metadata
    /\ gap_i' = 0
    /\ gaps' = <<>>
    /\ UNCHANGED <<segments, aggVars, isbnVars, chunkVars, extractVars, enrichVars, procVars, histVars, moreVars>>

\* lines 221-233: the fetch raises, the method returns None
VerifyFetchRaises ==
    /\ vpc = "call"
    /\ vpc' = "returned"
    /\ quality_metadata' = NoneObj
    /\ UNCHANGED <<segments, gap_i, gaps, aggVars, isbnVars,
                   chunkVars, extractVars, enrichVars, procVars, histVars, moreVars>>

\* lines 156-165: one iteration of the gap loop
VerifyGapIter ==
    /\ vpc = "gaps"
    /\ gap_i < Len(segments) - 1
    /\ gaps' = IF IsGap(segments, gap_i) THEN Append(gaps, GapRecord(segments, gap_i)) ELSE gaps
    /\ gap_i' = gap_i + 1
    /\ UNCHANGED <<vpc, segments, quality_metadata, aggVars, isbnVars,
                   chunkVars, extractVars, enrichVars, procVars, histVars, moreVars>>

\* lines 189-219: the quality report is built and returned
VerifyReturn ==
    /\ vpc = "gaps"
    /\ gap_i >= Len(segments) - 1
    /\ quality_metadata' =
          [total_segments |-> Len(segments),
           start_time |-> segments[1].start,
           end_time |-> segments[Len(segments)].start + segments[Len(segments)].duration,
           character_count |-> JoinedLength(segments),
           gaps_detected |-> Len(gaps),
           is_complete |-> is_complete(Len(segments), JoinedLength(segments), Len(gaps)),
           gaps |-> SubSeq(gaps, 1, Min2(GapsStored, Len(gaps)))]
    /\ vpc' = "returned"
    /\ UNCHANGED <<segments, gap_i, gaps, aggVars, isbnVars,
                   chunkVars, extractVars, enrichVars, procVars, histVars, moreVars>>

\* n snippets of 5 seconds and text_len characters each; the pairs
\* off+1 .. off+k are separated by hole tenths of a second, the others touch
MkSegments(n, text_len, off, k, hole) ==
    [j \in 1..n |->
        [start |-> (j - 1) * Tenths(5) + hole * Max2(0, Min2(j - 1, off + k) - off),
         duration |-> Tenths(5),
         text_len |-> text_len]]

SegmentCounts == {0, 1, 5, 10, 11, 12, 20, 30}
SegmentTextLengths == {10, 90, 91, 1000}
Holes == {-5, Tenths(2), 25, Tenths(5)}

VerifyInputs ==
    {MkSegments(n, l, off, k, h) :
        n \in SegmentCounts, l \in SegmentTextLengths, off \in {0, 1},
        k \in 0..(GapsStored + 2), h \in Holes}

VerifyIdle ==
    /\ vpc = "idle"
    /\ segments = <<>>
    /\ gap_i = 0
    /\ gaps = <<>>
    /\ quality_metadata = NoneObj

\* ------------------------------- safe_commit (scripts/process_all_pending.py)
\* line 45: the defaults of the parameters
DefaultMaxRetries == 3
DefaultRetryDelay == 1
\* line 60: retry_delay *= 2
BackoffFactor == 2

\* what a session can hold uncommitted when process_episode commits
Changes == {"processing_status", "recommendation", "transcript_metadata"}

\* the ways db.commit() can end: it returns, it raises OperationalError with
\* 'database is locked' in its message, it raises another OperationalError
CommitOutcomes == {"ok", "locked", "other"}

ShouldRetryAnyError(outcome, att, retries) ==
    outcome # "ok" /\ att < retries - 1

\* line 56: "database is locked" in str(e) and attempt < max_retries - 1
ShouldRetry(outcome, att, retries) ==
    outcome = "locked" /\ att < retries - 1

\* line 45: safe_commit(db, max_retries) is called with changes pending
SafeCommitCall ==
    /\ sc_pc = "idle"
    /\ \E m \in 0..MaxRetriesArg, ch \in SUBSET Changes :
          /\ max_retries' = m
          /\ session_changes' = ch
          /\ changes_at_call' = ch
    /\ attempt' = 0
    /\ retry_delay' = DefaultRetryDelay
    /\ sc_pc' = "loop"
    /\ UNCHANGED <<store_changes, sc_log, sc_sleeps, workerVars, recVars,
                   aggVars, isbnVars, verifyVars, histVars,
                   chunkVars, extractVars, enrichVars, procVars>>

\* lines 51-53: db.commit() returns; what the session holds reaches the store
SafeCommitOk ==
    /\ sc_pc = "loop"
    /\ attempt < max_retries
    /\ store_changes' = store_changes \cup session_changes
    /\ session_changes' = {}
    /\ sc_log' = Append(sc_log, "ok")
    /\ sc_pc' = "true"
    /\ UNCHANGED <<max_retries, attempt, retry_delay, sc_sleeps, changes_at_call,
                   workerVars, recVars, aggVars, isbnVars, verifyVars, histVars,
                   chunkVars, extractVars, enrichVars, procVars>>

\* lines 54-60: db.commit() raises and the attempt is retried: db.rollback()
\* discards what the session holds, then the sleep and the doubled delay
SafeCommitRetry ==
    /\ sc_pc = "loop"
    /\ attempt < max_retries
    /\ \E outcome \in CommitOutcomes \ {"ok"} :
          /\ ShouldRetry(outcome, attempt, max_retries)
          /\ sc_log' = Append(sc_log, outcome)
    /\ session_changes' = {}
    /\ sc_sleeps' = Append(sc_sleeps, retry_delay)
    /\ retry_delay' = retry_delay * BackoffFactor
    /\ attempt' = attempt + 1
    /\ UNCHANGED <<sc_pc, max_retries, store_changes, changes_at_call,
                   workerVars, recVars, aggVars, isbnVars, verifyVars, histVars,
                   chunkVars, extractVars, enrichVars, procVars>>

\* lines 61-63: db.commit() raises and the attempt is not retried:
\* db.rollback(), then the exception is re-raised
SafeCommitRaise ==
    /\ sc_pc = "loop"
    /\ attempt < max_retries
    /\ \E outcome \in CommitOutcomes \ {"ok"} :
          /\ ~ShouldRetry(outcome, attempt, max_retries)
          /\ sc_log' = Append(sc_log, outcome)
    /\ session_changes' = {}
    /\ sc_pc' = "raised"
    /\ UNCHANGED <<max_retries, attempt, retry_delay, store_changes, sc_sleeps,
                   changes_at_call, workerVars, recVars, aggVars, isbnVars,
                   verifyVars, histVars, chunkVars, extractVars, enrichVars, procVars>>

\* line 64: range(max_retries) is exhausted without an attempt (max_retries = 0)
SafeCommitFalse ==
    /\ sc_pc = "loop"
    /\ attempt >= max_retries
    /\ sc_pc' = "false"
    /\ UNCHANGED <<max_retries, attempt, retry_delay, session_changes, store_changes,
                   sc_log, sc_sleeps, changes_at_call, workerVars, recVars,
                   aggVars, isbnVars, verifyVars, histVars,
                   chunkVars, extractVars, enrichVars, procVars>>

\* ---------------- two runs of main at once (scripts/process_all_pending.py)
\* Each worker is one process running main with a session of its own on the
\* same database, which holds one episode.
Workers == {1, 2}

\* what extract_recommendations_smart can return for the episode: lists of
\* mentions whose titles differ
WorkerMentionLists == {<<>>, <<M_DuneBook>>, <<M_DuneBook, M_DeepWork>>}

\* lines 201-213: the Recommendation row built for a mention of the episode
WorkerRow(rec_data) ==
    [episode_id |-> "episode", type |-> Get(rec_data, "type", "other"),
     title |-> Get(rec_data, "title", S_Empty)]

RECURSIVE WorkerRows(_)
WorkerRows(recs) ==
    IF recs = <<>> THEN <<>> ELSE <<WorkerRow(Head(recs))>> \o WorkerRows(Tail(recs))

WorkerOthersUnchanged ==
    UNCHANGED <<commitVars, recVars, aggVars, isbnVars, verifyVars, histVars,
                chunkVars, extractVars, enrichVars, procVars>>

\* main, lines 283-298: the query for the episodes whose committed status is
\* 'pending'; nothing is locked or claimed by the query
WorkerSelect ==
    \E w \in Workers :
       /\ wpc[w] = "start"
       /\ w_selected' = [w_selected EXCEPT ![w] =
                            IF ep_status = "pending" THEN <<"episode">> ELSE <<>>]
       /\ wpc' = [wpc EXCEPT ![w] = "selected"]
       /\ UNCHANGED <<w_recs, ep_status, ep_rows>>
       /\ WorkerOthersUnchanged

\* main, lines 303-305: no pending episode was found
WorkerNothingPending ==
    \E w \in Workers :
       /\ wpc[w] = "selected"
       /\ w_selected[w] = <<>>
       /\ wpc' = [wpc EXCEPT ![w] = "done"]
       /\ UNCHANGED <<w_selected, w_recs, ep_status, ep_rows>>
       /\ WorkerOthersUnchanged

\* process_episode, lines 135-139: no transcript; the episode is committed as failed
WorkerFetchFails ==
    \E w \in Workers :
       /\ wpc[w] = "selected"
       /\ w_selected[w] # <<>>
       /\ ep_status' = "failed"
       /\ wpc' = [wpc EXCEPT ![w] = "done"]
       /\ UNCHANGED <<w_selected, w_recs, ep_rows>>
       /\ WorkerOthersUnchanged

\* process_episode, lines 151-153: the selected episode is committed as
\* processing, whatever its committed status has become since the query
WorkerMarkProcessing ==
    \E w \in Workers :
       /\ wpc[w] = "selected"
       /\ w_selected[w] # <<>>
       /\ ep_status' = "processing"
       /\ wpc' = [wpc EXCEPT ![w] = "processing"]
       /\ UNCHANGED <<w_selected, w_recs, ep_rows>>
       /\ WorkerOthersUnchanged

\* process_episode, lines 158-162: the mentions are extracted
WorkerExtract ==
    \E w \in Workers :
       /\ wpc[w] = "processing"
       /\ \E recs \in WorkerMentionLists : w_recs' = [w_recs EXCEPT ![w] = recs]
       /\ wpc' = [wpc EXCEPT ![w] = "extracted"]
       /\ UNCHANGED <<w_selected, ep_status, ep_rows>>
       /\ WorkerOthersUnchanged

\* process_episode, lines 173-220: one row is added for every mention, the
\* episode is marked completed and the session committed; no existing row of
\* the episode is looked up
WorkerSave ==
    \E w \in Workers :
       /\ wpc[w] = "extracted"
       /\ ep_rows' = ep_rows \o WorkerRows(w_recs[w])
       /\ ep_status' = "completed"
       /\ wpc' = [wpc EXCEPT ![w] = "done"]
       /\ UNCHANGED <<w_selected, w_recs>>
       /\ WorkerOthersUnchanged

\* --------- EnrichmentService.enrich_recommendation (enrichment_service.py)
\* what enrich_movie_tv returns (lines 75-133): {} when the search finds
\* nothing or fails, else the fields of the first result that are not falsy
TmdbAnswers ==
    { [found |-> FALSE],
      [found |-> TRUE, data |-> [tmdbId |-> 438631, releaseYear |-> <<"2", "0", "2", "1">>]] }

\* dict.update: the keys of other are set in d
DictUpdate(d, other) == other @@ d

\* the dicts handed to enrich_recommendation
RecInputs ==
    EnrichInputs \cup { M_DuneFilm, [type |-> "movie"],
                        [type |-> "tv_show", title |-> S_Dune],
                        [type |-> "podcast", title |-> S_DeepWork] }

RecOthersUnchanged ==
    UNCHANGED <<commitVars, workerVars, aggVars, isbnVars, verifyVars, histVars,
                chunkVars, extractVars, procVars>>

\* lines 145-150: the title is missing, null or empty
RecNoTitle ==
    /\ rpc = "call"
    /\ Falsy(Get(recommendation, "title", None))
    /\ rec_result' = NoneObj
    /\ rpc' = "returned"
    /\ UNCHANGED <<recommendation, recommendation_at_call, enrichVars>>
    /\ RecOthersUnchanged

\* lines 153-155: a book is handed, as the same dict object, to
\* enrich_book_recommendation
RecBookCall ==
    /\ rpc = "call"
    /\ ~Falsy(Get(recommendation, "title", None))
    /\ Get(recommendation, "type", None) = "book"
    /\ book_data' = recommendation
    /\ epc' = "start"
    /\ rpc' = "book"
    /\ UNCHANGED <<recommendation, recommendation_at_call, rec_result,
                   title, author, google_data, enriched, netCalls>>
    /\ RecOthersUnchanged

\* lines 157-163: enrich_book_recommendation returned; None is passed on, a
\* record is merged into the dict that was passed in, which is returned
RecBookReturn ==
    /\ rpc = "book"
    /\ epc = "returned"
    /\ IF enriched = NoneObj
          THEN /\ rec_result' = NoneObj
               /\ UNCHANGED recommendation
          ELSE /\ recommendation' = DictUpdate(recommendation, enriched)
               /\ rec_result' = DictUpdate(recommendation, enriched)
    /\ rpc' = "returned"
    /\ ResetEnrich
    /\ UNCHANGED recommendation_at_call
    /\ RecOthersUnchanged

\* line 155: enrich_book_recommendation raised; nothing catches the exception
RecBookRaised ==
    /\ rpc = "book"
    /\ epc = "raised"
    /\ rpc' = "raised"
    /\ ResetEnrich
    /\ UNCHANGED <<recommendation, recommendation_at_call, rec_result>>
    /\ RecOthersUnchanged

\* lines 165-174: another type; a movie or a TV show is looked up, and what
\* was found is merged into the dict that was passed in, which is returned
RecOther ==
    /\ rpc = "call"
    /\ ~Falsy(Get(recommendation, "title", None))
    /\ Get(recommendation, "type", None) # "book"
    /\ \E answer \in TmdbAnswers :
          LET enriched_data == IF Get(recommendation, "type", None) \in {"movie", "tv_show"}
                                  THEN answer ELSE [found |-> FALSE]
              updated == IF enriched_data.found
                            THEN DictUpdate(recommendation, enriched_data.data)
                            ELSE recommendation
          IN /\ recommendation' = updated
             /\ rec_result' = updated
    /\ rpc' = "returned"
    /\ UNCHANGED <<recommendation_at_call, enrichVars>>
    /\ RecOthersUnchanged

\* ------------------------------------------------------ idle values of the
\* variables of safe_commit, of the two workers and of enrich_recommendation
CommitIdle ==
    /\ sc_pc = "idle"
    /\ max_retries = 0
    /\ attempt = 0
    /\ retry_delay = 0
    /\ session_changes = {}
    /\ store_changes = {}
    /\ sc_log = <<>>
    /\ sc_sleeps = <<>>
    /\ changes_at_call = {}

WorkersIdle ==
    /\ wpc = <<>>
    /\ w_selected = <<>>
    /\ w_recs = <<>>
    /\ ep_status = "pending"
    /\ ep_rows = <<>>

RecIdle ==
    /\ rpc = "idle"
    /\ recommendation = [type |-> "none"]
    /\ recommendation_at_call = [type |-> "none"]
    /\ rec_result = NoneObj

\* All small texts over the five character classes
SmallTexts ==
    UNION {{MkText(n, [i \in {j \in 0..(n-1) : f[j] # Ordinary} |-> f[i]]) :
              f \in [0..(n-1) -> SpecialChars \cup {Ordinary}]} : n \in 0..MaxLen}

ValidParams == 0 <= overlap /\ overlap < chunk_size

InitChunk ==
    /\ transcript \in SmallTexts
    /\ chunk_size \in 1..MaxChunkSize
    /\ overlap \in 0..(chunk_size - 1)
    /\ start = 0
    /\ chunks = <<>>
    /\ spans = <<>>
    /\ cpc = "call"
    /\ ExtractIdle
    /\ EnrichIdle
    /\ ProcIdle
    /\ CommitIdle
    /\ WorkersIdle
    /\ RecIdle
    /\ AggIdle
    /\ IsbnIdle
    /\ VerifyIdle

NextChunk == ChunkEnter \/ ChunkIter \/ ChunkReturn

\* chunk_transcript called on its own
SpecChunk == InitChunk /\ [][NextChunk]_vars

ChunkIdle ==
    /\ transcript = MkText(0, EmptyFn)
    /\ chunk_size = 0
    /\ overlap = 0
    /\ start = 0
    /\ chunks = <<>>
    /\ spans = <<>>
    /\ cpc = "idle"

InitEnrich ==
    /\ ChunkIdle
    /\ ExtractIdle
    /\ ProcIdle
    /\ CommitIdle
    /\ WorkersIdle
    /\ RecIdle
    /\ epc = "start"
    /\ book_data \in EnrichInputs
    /\ title = <<>>
    /\ author = <<>>
    /\ google_data = NoneObj
    /\ enriched = NoneObj
    /\ netCalls = <<>>
    /\ AggIdle
    /\ IsbnIdle
    /\ VerifyIdle

NextEnrich == EnrichStart \/ EnrichSearch \/ EnrichFinish

\* enrich_book_recommendation called on its own
SpecEnrich == InitEnrich /\ [][NextEnrich]_vars

Init ==
    /\ ChunkIdle
    /\ pc = "start"
    /\ idx = 0
    /\ all_recommendations = <<>>
    /\ chunk_metadata = <<>>
    /\ recommendations = <<>>
    /\ claude_metadata = NoMetadata
    /\ oracleLog = <<>>
    /\ EnrichIdle
    /\ ProcIdle
    /\ CommitIdle
    /\ WorkersIdle
    /\ RecIdle
    /\ AggIdle
    /\ IsbnIdle
    /\ VerifyIdle

Next ==
    \/ FetchFails
    \/ FetchTranscript
    \/ SmartSinglePass
    \/ SmartChunked
    \/ ChunkEnter
    \/ ChunkIter
    \/ ChunkReturn
    \/ FromChunksEnter
    \/ FromChunksIter
    \/ FromChunksFinish
    \/ StoreMetadata
    \/ SaveOther
    \/ EnrichCall
    \/ EnrichStart
    \/ EnrichSearch
    \/ EnrichFinish
    \/ SaveBook
    \/ EnrichRaised
    \/ Complete
    \/ SaveMetrics
    \/ SaveMetricsRaises
    \/ MainExcept
    \/ MainExceptCommitRaises

\* process_episode run on one pending episode by main
Spec == Init /\ [][Next]_vars

InitAgg ==
    /\ ChunkIdle
    /\ ExtractIdle
    /\ EnrichIdle
    /\ ProcIdle
    /\ CommitIdle
    /\ WorkersIdle
    /\ RecIdle
    /\ IsbnIdle
    /\ VerifyIdle
    /\ apc = "start"
    /\ rec_table \in DistinctSeqs(BookRows, MaxBooks)
    /\ books = <<>>
    /\ bi = 0
    /\ book_map = <<>>
    /\ agg_session = <<>>
    /\ book_aggregates \in {<<>>, <<StaleAggregate>>}
    /\ uuid_next = 1
    /\ agg_runs = 1
    /\ prev_aggregates = [valid |-> FALSE, rows |-> <<>>]
    /\ aggregates_before = <<>>

NextAgg ==
    \/ AggFetch
    \/ AggGroup
    \/ AggClear
    \/ AggInsert
    \/ AggCommit
    \/ AggCommitRaises
    \/ AggRerun

\* create_book_aggregates run as a script, up to MaxRuns times
SpecAgg == InitAgg /\ [][NextAgg]_vars

InitIsbn ==
    /\ ChunkIdle
    /\ ExtractIdle
    /\ EnrichIdle
    /\ ProcIdle
    /\ CommitIdle
    /\ WorkersIdle
    /\ RecIdle
    /\ AggIdle
    /\ VerifyIdle
    /\ ipc = "call"
    /\ isbn13_arg \in IsbnInputs
    /\ isbn10_result = None

NextIsbn == IsbnConvert

\* _isbn13_to_isbn10 called on its own
SpecIsbn == InitIsbn /\ [][NextIsbn]_vars

InitVerify ==
    /\ ChunkIdle
    /\ ExtractIdle
    /\ EnrichIdle
    /\ ProcIdle
    /\ CommitIdle
    /\ WorkersIdle
    /\ RecIdle
    /\ AggIdle
    /\ IsbnIdle
    /\ vpc = "call"
    /\ segments \in VerifyInputs
    /\ gap_i = 0
    /\ gaps = <<>>
    /\ quality_metadata = NoneObj

NextVerify == VerifyFetch \/ VerifyFetchRaises \/ VerifyGapIter \/ VerifyReturn

\* get_transcript_with_verification called on its own
SpecVerify == InitVerify /\ [][NextVerify]_vars

InitCommit ==
    /\ ChunkIdle
    /\ ExtractIdle
    /\ EnrichIdle
    /\ ProcIdle
    /\ WorkersIdle
    /\ RecIdle
    /\ AggIdle
    /\ IsbnIdle
    /\ VerifyIdle
    /\ CommitIdle

NextCommit ==
    SafeCommitCall \/ SafeCommitOk \/ SafeCommitRetry \/ SafeCommitRaise \/ SafeCommitFalse

\* safe_commit called on its own
SpecCommit == InitCommit /\ [][NextCommit]_vars

InitWorkers ==
    /\ ChunkIdle
    /\ ExtractIdle
    /\ EnrichIdle
    /\ ProcIdle
    /\ CommitIdle
    /\ RecIdle
    /\ AggIdle
    /\ IsbnIdle
    /\ VerifyIdle
    /\ wpc = [w \in Workers |-> "start"]
    /\ w_selected = [w \in Workers |-> <<>>]
    /\ w_recs = [w \in Workers |-> <<>>]
    /\ ep_status = "pending"
    /\ ep_rows = <<>>

NextWorkers ==
    \/ WorkerSelect
    \/ WorkerNothingPending
    \/ WorkerFetchFails
    \/ WorkerMarkProcessing
    \/ WorkerExtract
    \/ WorkerSave

\* two runs of main at once on a database that holds one pending episode
SpecWorkers == InitWorkers /\ [][NextWorkers]_vars

InitChunkUnchecked ==
    /\ transcript \in SmallTexts
    /\ chunk_size \in 1..MaxChunkSize
    /\ overlap \in 0..MaxChunkSize
    /\ start = 0
    /\ chunks = <<>>
    /\ spans = <<>>
    /\ cpc = "call"
    /\ ExtractIdle
    /\ EnrichIdle
    /\ ProcIdle
    /\ CommitIdle
    /\ WorkersIdle
    /\ RecIdle
    /\ AggIdle
    /\ IsbnIdle
    /\ VerifyIdle

\* chunk_transcript called on its own with any overlap, below chunk_size or not
SpecChunkUnchecked == InitChunkUnchecked /\ [][NextChunk]_vars

InitRec ==
    /\ ChunkIdle
    /\ ExtractIdle
    /\ EnrichIdle
    /\ ProcIdle
    /\ CommitIdle
    /\ WorkersIdle
    /\ AggIdle
    /\ IsbnIdle
    /\ VerifyIdle
    /\ rpc = "call"
    /\ recommendation \in RecInputs
    /\ recommendation_at_call = recommendation
    /\ rec_result = NoneObj

NextRec ==
    \/ RecNoTitle
    \/ RecBookCall
    \/ EnrichStart
    \/ EnrichSearch
    \/ EnrichFinish
    \/ RecBookReturn
    \/ RecBookRaised
    \/ RecOther

\* enrich_recommendation called on its own
SpecRec == InitRec /\ [][NextRec]_vars


\* ------------------------------------------------------------------ claims

\* C1: for 0 <= overlap < chunk_size, every iteration of the chunking loop
\* strictly increases start, so that the loop reaches len(text) and returns.
C1_StartStrictlyIncreases ==
    [][(ValidParams /\ cpc = "loop" /\ spans' # spans) => start' > start]_vars

\* the part of the text that the chunk cut as spans[i] holds: text[lo:hi]
SliceLo(i) == PyIndex(spans[i].start, transcript.len)
SliceHi(i) == Max2(SliceLo(i), PyIndex(spans[i].end, transcript.len))
InSlice(p, i) == SliceLo(i) <= p /\ p < SliceHi(i)
InSomeSlice(p) == \E i \in 1..Len(spans) : InSlice(p, i)

\* C2: for 0 <= overlap < chunk_size the untrimmed spans of the returned
\* chunks cover [0, len(text)) with no gap: the first span starts at 0, and
\* every position where a span ends before len(text) lies inside a span
\* (so each span is continued by one that starts at or before its end, up to
\* a last span that reaches len(text)).
C2_SpansCoverText ==
    (ValidParams /\ cpc = "done") =>
        /\ Len(spans) > 0
        /\ spans[1].start = 0
        /\ \A i \in 1..Len(spans) :
              SliceHi(i) < transcript.len => InSomeSlice(SliceHi(i))

\* C3: in chunked mode total_characters_sent equals the length of the source
\* transcript, and every metrics row of a chunked run has coverage_verified.
C3_ChunkedSendsTranscriptLength ==
    /\ (pc = "extracted" /\ claude_metadata.processing_mode = "chunked") =>
           claude_metadata.total_characters_sent = transcript.len
    /\ \A i \in 1..Len(metrics) :
           metrics[i].processing_mode = "chunked" => metrics[i].coverage_verified

\* C4: the dispatcher chooses single_pass exactly when len(transcript) < 100000
\* and chunks with size 100000 and overlap 2000 otherwise; in single_pass the
\* oracle is called once, with the whole transcript, total_chunks is 1 and
\* total_characters_sent is len(transcript).
C4_SinglePassIffBelowThreshold ==
    /\ pc \in {"chunking", "chunk_loop"} =>
          /\ transcript.len >= 100000
          /\ chunk_size = 100000
          /\ overlap = 2000
    /\ pc = "extracted" =>
          /\ claude_metadata.processing_mode \in {"single_pass", "chunked"}
          /\ claude_metadata.processing_mode = "single_pass" <=> transcript.len < 100000
          /\ claude_metadata.processing_mode = "single_pass" =>
                /\ Len(oracleLog) = 1
                /\ oracleLog[1].sent = transcript
                /\ claude_metadata.total_chunks = 1
                /\ claude_metadata.total_characters_sent = transcript.len

\* single pass has returned mentions for a transcript one character short of
\* the threshold
C4_Witness ==
    /\ pc = "extracted"
    /\ claude_metadata.processing_mode = "single_pass"
    /\ transcript.len = 99999
    /\ recommendations # <<>>

\* the dedup key of the claim: the title lower-cased and trimmed
C5_Key(m) == Strip(lower(Get(m, "title", S_Empty)))

RECURSIVE C5_FirstOccurrences(_, _)
\* the mentions among the first n of l whose key occurs at no earlier index
C5_FirstOccurrences(l, n) ==
    IF n = 0 THEN <<>>
    ELSE LET before == C5_FirstOccurrences(l, n - 1)
         IN IF \A j \in 1..(n - 1) : C5_Key(l[j]) # C5_Key(l[n])
               THEN Append(before, l[n]) ELSE before

RECURSIVE C5_FirstNonEmptyOccurrences(_, _)
\* the same, without the mentions whose key is the empty string
C5_FirstNonEmptyOccurrences(l, n) ==
    IF n = 0 THEN <<>>
    ELSE LET before == C5_FirstNonEmptyOccurrences(l, n - 1)
         IN IF C5_Key(l[n]) # <<>> /\ \A j \in 1..(n - 1) : C5_Key(l[j]) # C5_Key(l[n])
               THEN Append(before, l[n]) ELSE before

C5_ChunkedReturned == pc = "extracted" /\ claude_metadata.processing_mode = "chunked"

C6_Failed(reply) ==
    \/ reply.kind = "api_error"
    \/ /\ reply.kind = "text"
       /\ \/ ~reply.json
          \/ reply.prefix \notin {"", Fence, FenceJson}
          \/ reply.suffix \notin {"", Fence}

C6_Contribution(reply) ==
    IF C6_Failed(reply) THEN <<>> ELSE Get(reply.obj, "recommendations", <<>>)

RECURSIVE C6_Contributions(_, _)
C6_Contributions(log, n) ==
    IF n = 0 THEN <<>> ELSE C6_Contributions(log, n - 1) \o C6_Contribution(log[n].reply)

\* C6: in chunked extraction the oracle is called once per chunk, in chunk
\* order; a failed call contributes no mention for its chunk only, the
\* remaining chunks are still sent, and the mentions of the calls that
\* succeeded are all collected.
C6_OneCallPerChunkFailuresIsolated ==
    /\ pc = "chunk_loop" =>
          /\ Len(oracleLog) = idx
          /\ \A k \in 1..idx : oracleLog[k].sent = chunks[k]
          /\ all_recommendations = C6_Contributions(oracleLog, idx)
    /\ (pc \in {"extracted", "raised"} /\ cpc = "done") =>
          /\ Len(oracleLog) = Len(chunks)
          /\ \A k \in 1..Len(chunks) : oracleLog[k].sent = chunks[k]
          /\ all_recommendations = C6_Contributions(oracleLog, Len(chunks))

\* three chunks were sent, the call for the second failed, and mentions of the
\* first and of the third were collected
C6_Witness ==
    /\ pc = "chunk_loop"
    /\ idx = 3
    /\ Len(chunks) = 3
    /\ ~C6_Failed(oracleLog[1].reply) /\ C6_Contribution(oracleLog[1].reply) # <<>>
    /\ C6_Failed(oracleLog[2].reply)
    /\ ~C6_Failed(oracleLog[3].reply) /\ C6_Contribution(oracleLog[3].reply) # <<>>
    /\ all_recommendations =
          C6_Contribution(oracleLog[1].reply) \o C6_Contribution(oracleLog[3].reply)

\* C7: no committed Recommendation of type book lacks the mandatory enriched
\* fields: a book mention whose enrichment was rejected has no row.
C7_NoUnenrichedBookPersisted ==
    \A i \in 1..Len(db_recs) :
        db_recs[i].type = "book" =>
            /\ {"author", "isbn"} \subseteq db_recs[i].extra_keys
            /\ ~Falsy(db_recs[i].data.author)
            /\ ~Falsy(db_recs[i].data.isbn)

\* the mention reaches the catalog search: its title is a str that is neither
\* empty nor a placeholder, and its author is a str
C8_UsableMention ==
    /\ Get(book_data, "title", S_Empty) # None
    /\ Get(book_data, "author_creator", S_Empty) # None
    /\ Strip(Get(book_data, "title", S_Empty)) # <<>>
    /\ lower(Strip(Get(book_data, "title", S_Empty))) \notin PlaceholderStrings

C8_TitleScore ==
    IF Get(google_data, "title", None) = None THEN 0
    ELSE ratio(lower(title), lower(google_data.title))

C8_AuthorScore ==
    partial_ratio(lower(author), lower(Join(<<" ">>, Get(google_data, "authors", <<>>))))

C8_ChecksPass ==
    /\ google_data # NoneObj
    /\ C8_TitleScore >= 70
    /\ (~Falsy(author) => C8_AuthorScore >= 60)
    /\ ~Falsy(Get(google_data, "title", None))
    /\ ~Falsy(Get(google_data, "author", None))
    /\ (~Falsy(Get(google_data, "isbn_10", None)) \/ ~Falsy(Get(google_data, "isbn_13", None)))

\* C8: enrich_book_recommendation accepts a mention with a usable title if and
\* only if the catalog returned a candidate, the title score is >= 70, the
\* author score is >= 60 when an author was supplied, and the candidate has
\* title, author and an ISBN; when a check fails the result is None.
C8_AcceptIffChecksPass ==
    (C8_UsableMention /\ epc \in {"returned", "raised"}) =>
        IF C8_ChecksPass
           THEN epc = "returned" /\ enriched # NoneObj
           ELSE epc = "returned" /\ enriched = NoneObj

\* the mention's title is a str that is empty or a placeholder once trimmed
C9_PlaceholderTitle ==
    /\ Get(book_data, "title", S_Empty) # None
    /\ \/ Strip(Get(book_data, "title", S_Empty)) = <<>>
       \/ lower(Strip(Get(book_data, "title", S_Empty))) \in PlaceholderStrings

\* C9: a mention whose title is empty or a placeholder is rejected with
\* result None, and no call to the catalog or to an image provider has been
\* made when enrich_book_recommendation ends.
C9_PlaceholderRejectedBeforeAnyCall ==
    (C9_PlaceholderTitle /\ epc \notin {"idle", "start"}) =>
        /\ epc = "returned"
        /\ enriched = NoneObj
        /\ netCalls = <<>>

\* C10: the cover URL of an enriched record has passed cover validation: a
\* validation request for that URL was made and succeeded before the record
\* was returned.
C10_CoverValidatedBeforeStored ==
    (epc = "returned" /\ enriched # NoneObj /\ enriched.coverImageUrl # NoneObj) =>
        \E k \in 1..Len(netCalls) :
            /\ netCalls[k].kind = "cover_validation"
            /\ Get(netCalls[k], "url", NoneObj) = enriched.coverImageUrl
            /\ Get(netCalls[k], "valid", FALSE)

\* ---------------------------------------------------- claims on aggregation
\* the aggregates (indices into book_aggregates) that list recommendation id
C11_AggregatesOf(id) ==
    {r \in 1..Len(book_aggregates) : InSeq(id, book_aggregates[r].recommendation_ids)}

C11_SameAggregate(b1, b2) == C11_AggregatesOf(b1.id) \cap C11_AggregatesOf(b2.id) # {}

\* C11: after a completed rebuild, two book records that both have an isbn13
\* are in the same aggregate exactly when their isbn13 values are equal,
\* whatever their titles (the isbn13 is preferred to the title as group key).
C11_Isbn13PreferredToTitle ==
    apc = "done" =>
      \A i, j \in 1..Len(rec_table) :
         (AggIsbn13(rec_table[i]) # None /\ AggIsbn13(rec_table[j]) # None) =>
            (C11_SameAggregate(rec_table[i], rec_table[j])
               <=> AggIsbn13(rec_table[i]) = AggIsbn13(rec_table[j]))

\* a rebuild completed on records with equal titles and different isbn13
\* values and on records with equal isbn13 values and different titles
C11_Witness ==
    /\ apc = "done"
    /\ \E i, j, k \in 1..Len(rec_table) :
         /\ AggIsbn13(rec_table[i]) # None
         /\ AggIsbn13(rec_table[j]) # None
         /\ AggIsbn13(rec_table[k]) # None
         /\ rec_table[i].title = rec_table[j].title
         /\ AggIsbn13(rec_table[i]) # AggIsbn13(rec_table[j])
         /\ rec_table[i].title # rec_table[k].title
         /\ AggIsbn13(rec_table[i]) = AggIsbn13(rec_table[k])

C12_NoIsbn(book) ==
    Falsy(AggIsbn13(book)) /\ Falsy(AggIsbn10(book)) /\ Falsy(AggIsbn(book))

\* C12: after a completed rebuild, two book records without any ISBN whose
\* titles are equal once lower-cased are in the same aggregate.
C12_NoIsbnGroupedByLowercasedTitle ==
    apc = "done" =>
      \A i, j \in 1..Len(rec_table) :
         (/\ C12_NoIsbn(rec_table[i])
          /\ C12_NoIsbn(rec_table[j])
          /\ lower(rec_table[i].title) = lower(rec_table[j].title))
            => C11_SameAggregate(rec_table[i], rec_table[j])

\* the group key of an aggregate row, from its own columns
C13_RowKey(row) == PyOr(PyOr(PyOr(row.isbn_13, row.isbn_10), row.isbn), row.title)

\* the records (indices into rec_table) of the group of an aggregate row
C13_Group(row) == {i \in 1..Len(rec_table) : unique_key(rec_table[i]) = C13_RowKey(row)}

RECURSIVE C13_Ids(_, _)
\* the ids of the records of G, in input order, from index i on
C13_Ids(G, i) ==
    IF i > Len(rec_table) THEN <<>>
    ELSE (IF i \in G THEN <<rec_table[i].id>> ELSE <<>>) \o C13_Ids(G, i + 1)

RECURSIVE C13_Recommenders(_, _)
\* the recommended_by of the records of G, in input order, from index i on
C13_Recommenders(G, i) ==
    IF i > Len(rec_table) THEN <<>>
    ELSE (IF i \in G THEN <<rec_table[i].recommended_by>> ELSE <<>>)
            \o C13_Recommenders(G, i + 1)

RECURSIVE C13_FirstAppearances(_, _)
\* the distinct non-empty names of seq, each once, in order of first appearance
C13_FirstAppearances(seq, seen) ==
    IF seq = <<>> THEN <<>>
    ELSE IF Falsy(Head(seq)) \/ Head(seq) \in seen
            THEN C13_FirstAppearances(Tail(seq), seen)
            ELSE <<Head(seq)>> \o C13_FirstAppearances(Tail(seq), seen \cup {Head(seq)})

\* C13: after a completed rebuild every aggregate has the canonical fields of
\* the first record of its group, a recommendation_count equal to the size of
\* the group and to len(recommendation_ids), the group's distinct non-empty
\* recommenders once each in order of first appearance, and every input
\* record's id is listed by exactly one aggregate.
C13_AggregateFoldsItsGroup ==
    apc = "done" =>
      /\ \A r \in 1..Len(book_aggregates) :
            LET row == book_aggregates[r]
                G == C13_Group(row)
                first == rec_table[CHOOSE i \in G : \A j \in G : i <= j]
            IN /\ G # {}
               /\ row.title = first.title
               /\ row.author = AggMeta(first, "author")
               /\ row.isbn_13 = AggIsbn13(first)
               /\ row.isbn_10 = AggIsbn10(first)
               /\ row.isbn = AggIsbn(first)
               /\ row.recommendation_count = Cardinality(G)
               /\ row.recommendation_count = Len(row.recommendation_ids)
               /\ row.recommendation_ids = C13_Ids(G, 1)
               /\ row.recommended_by =
                     C13_FirstAppearances(C13_Recommenders(G, 1), {})
      /\ \A i \in 1..Len(rec_table) : Cardinality(C11_AggregatesOf(rec_table[i].id)) = 1

\* a rebuild completed with an aggregate of several records, one of them
\* without a recommender or with a recommender already listed
C13_Witness ==
    /\ apc = "done"
    /\ \E r \in 1..Len(book_aggregates) :
         /\ book_aggregates[r].recommendation_count >= 2
         /\ Len(book_aggregates[r].recommended_by) < book_aggregates[r].recommendation_count

C14_Keys == {unique_key(rec_table[i]) : i \in 1..Len(rec_table)}

\* C14: after a completed run the table holds exactly one row per group of
\* the current recommendations and no row of an earlier run; a second
\* completed run on the same input leaves the same groups with the same
\* recommendation_count and recommended_by.
C14_FullReplaceIdempotent ==
    apc = "done" =>
      /\ {C13_RowKey(book_aggregates[r]) : r \in 1..Len(book_aggregates)} = C14_Keys
      /\ Len(book_aggregates) = Cardinality(C14_Keys)
      /\ ~InSeq(StaleAggregate, book_aggregates)
      /\ prev_aggregates.valid =>
            /\ \A r \in 1..Len(book_aggregates) :
                  ~\E q \in 1..Len(prev_aggregates.rows) :
                      prev_aggregates.rows[q].id = book_aggregates[r].id
            /\ Len(prev_aggregates.rows) = Len(book_aggregates)
            /\ \A r \in 1..Len(book_aggregates) :
                  \E q \in 1..Len(prev_aggregates.rows) :
                     /\ C13_RowKey(prev_aggregates.rows[q]) = C13_RowKey(book_aggregates[r])
                     /\ prev_aggregates.rows[q].recommendation_count
                           = book_aggregates[r].recommendation_count
                     /\ prev_aggregates.rows[q].recommended_by
                           = book_aggregates[r].recommended_by

\* a second run completed after a completed first run, on an input of
\* several groups one of which has several records
C14_Witness ==
    /\ apc = "done"
    /\ prev_aggregates.valid
    /\ agg_runs = 2
    /\ Len(book_aggregates) >= 2
    /\ \E r \in 1..Len(book_aggregates) : book_aggregates[r].recommendation_count >= 2

\* ------------------------------------------------ claims on the ISBN conversion
\* the digits of the argument of _isbn13_to_isbn10
C15_Digits == IF isbn13_arg = None THEN <<>> ELSE SelectSeq(isbn13_arg, IsDigit)

\* the argument is a well-formed ISBN-13 of prefix 978
C15_WellFormed978 ==
    /\ Len(C15_Digits) = 13
    /\ SubSeq(C15_Digits, 1, 3) = <<"9", "7", "8">>

\* C15: _isbn13_to_isbn10 returns an ISBN-10 only for a well-formed ISBN-13
\* (13 digits) of prefix 978, and None for every 979-prefixed or malformed
\* argument.
C15_NoneUnlessWellFormed978 ==
    ipc = "returned" => (isbn10_result # None => C15_WellFormed978)

C16_Value(c) == IF c = "X" THEN 10 ELSE DigitValue(c)

RECURSIVE C16_Weighted(_, _)
\* sum over the characters n .. 10 of an ISBN-10 of value * weight, the
\* weights being 10 for the first character down to 1 for the last
C16_Weighted(isbn10, n) ==
    IF n > 10 THEN 0
    ELSE C16_Value(isbn10[n]) * (11 - n) + C16_Weighted(isbn10, n + 1)

\* C16: for a 13-digit argument of prefix 978 the result has 10 characters,
\* digits 4..12 of the argument followed by a check character that makes the
\* ISBN-10 checksum divisible by 11, X standing for the value 10 only.
C16_Isbn10ChecksumHolds ==
    (ipc = "returned" /\ C15_WellFormed978) =>
       /\ isbn10_result # None
       /\ Len(isbn10_result) = 10
       /\ SubSeq(isbn10_result, 1, 9) = SubSeq(C15_Digits, 4, 12)
       /\ isbn10_result[10] \in Digits \cup {"X"}
       /\ C16_Weighted(isbn10_result, 1) % 11 = 0

\* a conversion that returned an ISBN-10 with check character X
C16_Witness ==
    /\ ipc = "returned"
    /\ C15_WellFormed978
    /\ isbn10_result # None
    /\ isbn10_result[10] = "X"

C18_GapPositions ==
    {i \in 0..(Len(segments) - 2) :
        segments[i + 2].start - (segments[i + 1].start + segments[i + 1].duration) > 20}

\* C18: gaps_detected is the number of adjacent pairs more than 2.0 seconds
\* apart (exactly 2.0 is no gap), however many, and the stored list holds the
\* first min(10, gaps_detected) of them in segment order.
C18_GapsCountedAllStoredTen ==
    quality_metadata # NoneObj =>
       /\ quality_metadata.gaps_detected = Cardinality(C18_GapPositions)
       /\ Len(quality_metadata.gaps) =
             IF Cardinality(C18_GapPositions) < 10 THEN Cardinality(C18_GapPositions) ELSE 10
       /\ \A m \in 1..Len(quality_metadata.gaps) :
             LET g == quality_metadata.gaps[m]
             IN /\ g.position \in C18_GapPositions
                /\ Cardinality({q \in C18_GapPositions : q < g.position}) = m - 1
                /\ g.time = segments[g.position + 1].start + segments[g.position + 1].duration
                /\ g.gap_seconds = segments[g.position + 2].start - g.time

\* a report of a transcript with more than 10 gaps
C18_Witness ==
    /\ vpc = "returned"
    /\ quality_metadata # NoneObj
    /\ quality_metadata.gaps_detected > 10
    /\ Len(quality_metadata.gaps) = 10

\* ------------------------------------------ claims on failures of an episode
\* C19: once the episode is committed as completed it stays completed, with
\* its saved recommendations, also when the metrics write that follows fails.
C19_CompletedSurvivesMetricsFailure ==
    [][db_status = "completed" => (db_status' = "completed" /\ db_recs' = db_recs)]_vars

\* C20: when every oracle call of an episode failed, the episode is never
\* committed as completed and ends with processing_status failed.
C20_UnreachableOracleFailsEpisode ==
    oracle_unreachable =>
       /\ db_status # "completed"
       /\ pc = "returned" => db_status = "failed"

\* C21: safe_commit retries only after 'database is locked', attempts at most
\* max_retries commits, sleeps 1s, 2s, ... between them, returns True on the
\* first commit that succeeds, and re-raises when the last attempt fails or
\* when the error is any other operational error.
RECURSIVE C21_Pow2(_)
C21_Pow2(n) == IF n <= 0 THEN 1 ELSE 2 * C21_Pow2(n - 1)

C21_RetriesOnlyWhenLockedWithBackoff ==
    /\ Len(sc_log) <= max_retries
    /\ \A i \in 1..(Len(sc_log) - 1) : sc_log[i] = "locked"
    /\ \A i \in 1..Len(sc_sleeps) : sc_sleeps[i] = DefaultRetryDelay * C21_Pow2(i - 1)
    /\ sc_pc = "loop" => (Len(sc_sleeps) = Len(sc_log) /\ \A i \in 1..Len(sc_log) : sc_log[i] = "locked")
    /\ sc_pc \in {"true", "raised"} => Len(sc_sleeps) = Len(sc_log) - 1
    /\ sc_pc = "true" <=> (sc_log # <<>> /\ sc_log[Len(sc_log)] = "ok")
    /\ sc_pc = "raised" <=>
          /\ sc_log # <<>>
          /\ \/ sc_log[Len(sc_log)] = "other"
             \/ sc_log[Len(sc_log)] = "locked" /\ Len(sc_log) = max_retries

C21_Witness ==
    /\ sc_pc = "true"
    /\ max_retries = DefaultMaxRetries
    /\ sc_log = <<"locked", "locked", "ok">>
    /\ sc_sleeps = <<1, 2>>

\* C26: whenever safe_commit returns True, every modification that was pending
\* in the session when it was called is committed, also when the commit that
\* succeeded was a retry after 'database is locked'.
C26_TrueMeansPendingCommitted ==
    sc_pc = "true" => changes_at_call \subseteq store_changes

\* C22: two workers may both select and process the same pending episode, yet
\* the outcome is idempotent: the episode never has two Recommendation rows
\* for the same mention.
C22_NoDuplicateRows ==
    \A i, j \in 1..Len(ep_rows) : ep_rows[i] = ep_rows[j] => i = j

\* C23: chunk_transcript validates its parameters: whenever overlap >= chunk_size
\* the call raises, without returning chunks and without entering the loop.
C23_FailsFastOnBadOverlap ==
    overlap >= chunk_size => (cpc \in {"call", "raised"} /\ chunks = <<>>)

\* C24: for a non-empty text and valid parameters every chunk returned is
\* non-empty, also when a window holds only whitespace or when a terminator
\* lies within the first overlap characters of a window.
C24_NoEmptyChunk ==
    (ValidParams /\ transcript.len > 0 /\ cpc = "done") =>
        \A i \in 1..Len(chunks) : chunks[i].len > 0

\* C25: enrichment does not mutate its input: when enrich_book_recommendation
\* or enrich_recommendation has returned, with a record or with None, the dict
\* that was passed in has the keys and values it had before the call.
C25_InputNotMutated ==
    /\ rpc = "returned" => recommendation = recommendation_at_call
    /\ (rpc = "book" /\ epc = "returned") => book_data = recommendation_at_call

\* C27: every episode selected by a run ends with status completed or failed:
\* none is left pending or processing when its processing is over, also when
\* an exception was raised during its processing or a commit failed.
C27_SelectedEndsCompletedOrFailed ==
    pc = "returned" => db_status \in {"completed", "failed"}

\* a mention whose title or author_creator is present but null
C28_NullField(rec) ==
    Get(rec, "title", S_Empty) = None \/ Get(rec, "author_creator", S_Empty) = None

\* C28: a mention whose title or author_creator is null never makes the dedup
\* of extract_recommendations_from_chunks or enrich_book_recommendation raise.
C28_NullMentionNeverRaises ==
    /\ pc = "raised" => ~DedupRaises(all_recommendations)
    /\ epc = "raised" => ~C28_NullField(book_data)

\* the mentions of a list whose title is a str
C29_Titled(recs) == {i \in 1..Len(recs) : Get(recs[i], "title", S_Empty) # None}

\* the distinct non-empty normalized titles of a list
C29_Keys(recs) == {TitleKey(recs[i]) : i \in C29_Titled(recs)} \ {<<>>}

\* C29: whichever mode extract_recommendations_smart chose, the list it
\* returns has no two mentions with the same lower-cased trimmed title and no
\* mention with an empty title, and unique_recommendations is the number of
\* distinct non-empty normalized titles among the mentions the oracle returned.
C29_ReturnedMentionsDistinct ==
    pc = "extracted" =>
        LET returned == IF claude_metadata.processing_mode = "chunked"
                           THEN all_recommendations ELSE recommendations
        IN /\ \A i \in C29_Titled(recommendations) : TitleKey(recommendations[i]) # <<>>
           /\ \A i, j \in C29_Titled(recommendations) :
                 TitleKey(recommendations[i]) = TitleKey(recommendations[j]) => i = j
           /\ claude_metadata.unique_recommendations = Cardinality(C29_Keys(returned))

\* C30: the rebuild is all-or-nothing: when create_book_aggregates has failed,
\* book_aggregates holds exactly the rows it held before the run.
C30_FailedRebuildKeepsTable ==
    apc = "raised" => book_aggregates = aggregates_before

====
